---- MODULE Spec2Model ----
(***************************************************************************)
(* VistaScape: the client-side state machine of App.tsx and the requests   *)
(* of services/geminiService.ts.  One action per UI handler or per         *)
(* continuation of an awaited call; every pending promise is a record in   *)
(* a bag, carrying the values its closure captured when it was started.    *)
(***************************************************************************)
EXTENDS Bags, FiniteSets, Integers, Sequences, TLC

VARIABLES
    appState,           \* App.tsx:10
    originalImage,      \* App.tsx:11
    generatedImage,     \* App.tsx:12
    generatedVideo,     \* App.tsx:13
    generatedAnalysis,  \* App.tsx:14
    prompt,             \* App.tsx:16, a sequence of text chunks
    error,              \* App.tsx:17
    isAnalyzing,        \* App.tsx:21
    isScanning,         \* App.tsx:22
    detectedFeatures,   \* App.tsx:23
    videoResolution,    \* App.tsx:26
    videoAspectRatio,   \* App.tsx:27
    mediaType,          \* App.tsx:30
    mode,               \* App.tsx:31
    fileName,           \* App.tsx:33
    readers,            \* bag of FileReader reads in flight (App.tsx:62-71)
    gens,               \* bag of handleGenerate continuations in flight
    analyzes,           \* bag of analyzeImage calls in flight
    scans,              \* bag of identifyFeatures calls in flight
    apiKey,             \* process.env.API_KEY is set (geminiService.ts:5)
    aistudio,           \* window.aistudio exists (App.tsx:131)
    showFullPreview,    \* App.tsx:34
    isDragging,         \* App.tsx:18
    dragCounter,        \* App.tsx:37
    slider,             \* state of the mounted ComparisonSlider, or Null
    chatBot,            \* state of the mounted ChatBot, or Null
    sends,              \* bag of sendChatMessage calls in flight
    chatReaders,        \* bag of FileReader reads of ChatBot in flight
    last                \* history: the handler or continuation that ran last

vars == <<appState, originalImage, generatedImage, generatedVideo,
          generatedAnalysis, prompt, error, isAnalyzing, isScanning,
          detectedFeatures, videoResolution, videoAspectRatio, mediaType,
          mode, fileName, readers, gens, analyzes, scans, apiKey, aistudio,
          showFullPreview, isDragging, dragCounter, slider, chatBot, sends,
          chatReaders, last>>

\* the state of App that its upload, description and result steps work on
AppVars ==
    <<appState, originalImage, generatedImage, generatedVideo,
      generatedAnalysis, prompt, error, isAnalyzing, isScanning,
      detectedFeatures, videoResolution, videoAspectRatio, mediaType, mode,
      fileName, readers, gens, analyzes, scans, apiKey, aistudio>>

\* null of an object-typed state (ImageData, VideoData) and of a string-typed one
Null == [null |-> TRUE]
NullText == "null"

\* ------------------------------------------------------------------ bounds
\* promises (file reads and service calls) pending at the same time
MaxPending == 2
\* chunks of the prompt text
MaxPrompt == 2

\* ------------------------------------------------------------------ types.ts
UPLOAD == "UPLOAD"
DESCRIBE == "DESCRIBE"
GENERATING == "GENERATING"
VIDEO_GENERATING == "VIDEO_GENERATING"
RESULT == "RESULT"

\* A File of the picker or of a drop: its name and its content type, split
\* at the slash.
Files ==
    { [name |-> "yard.png", type |-> <<"image", "png">>],
      [name |-> "walk.mp4", type |-> <<"video", "mp4">>],
      [name |-> "notes.txt", type |-> <<"text", "plain">>] }

\* file.type.startsWith('image/') and file.type.startsWith('video/')
isImage(file) == file.type[1] = "image"
isVideo(file) == file.type[1] = "video"

\* reader.result of readAsDataURL: the data URL of the file's bytes
readAsDataURL(file) == <<"data", file.type, file.name>>

ImageData(file) == [base64 |-> readAsDataURL(file), mimeType |-> file.type]

\* ------------------------------------------------------------ prompt text
\* The prompt is the concatenation of its chunks.
Blank == {" ", "\n\n"}
TypedPrompts == { <<>>, <<" ">>, <<"add a pool">> }
Suggestions == { "", "a vision" }
FeatureLists == { <<>>, <<"oak">> }

\* prompt.trim() is the empty string
TrimIsEmpty(p) == \A i \in 1..Len(p) : p[i] \in Blank

\* App.tsx:172-175
appendSuggestion(prev, suggestion) ==
    LET separator == IF TrimIsEmpty(prev) THEN <<>> ELSE <<"\n\n">>
        text == IF suggestion = "" THEN <<>> ELSE <<suggestion>>
    IN  prev \o separator \o text

\* App.tsx:196-201
keepFeature(prev, feature) ==
    IF prev = <<>> THEN << "Keep the " \o feature >>
    ELSE Append(prev, ", keep the " \o feature)

\* ---------------------------------------------------------------- messages
InvalidUploadMsg == "Please upload a valid image or video file."
MissingKeyMsg == "API Key is missing. Please ensure process.env.API_KEY is available."
KeySelectMsg == "API Key selection failed or cancelled."
NoImageMsg == "No image was generated. Please try again with a more specific description."
NoUriMsg == "Video generation completed but no URI was returned."
DownloadMsg == "Failed to download video: "
AnalyzeVideoMsg == "Failed to analyze video. Note: Large video files may exceed inline transfer limits."
AnalyzeImageMsg == "Failed to analyze image."
\* e.message of an error thrown by the SDK or by fetch
SdkMessages == { "", "503 unavailable" }

\* -------------------------------------------------------------- components
\* App.tsx:233, the full-screen preview is returned in place of the page
PreviewShown ==
    showFullPreview /\ generatedImage # Null /\ mode = "image"

\* App.tsx:567-575, the comparison slider is rendered on the result canvas
SliderShown ==
    /\ ~PreviewShown
    /\ appState = RESULT
    /\ mode = "image" /\ originalImage # Null /\ generatedImage # Null

\* ComparisonSlider.tsx:12-13, the state of a ComparisonSlider that mounts
NewSlider == [sliderPosition |-> 50, isDragging |-> FALSE]

\* ChatBot.tsx:8-10, the greeting the transcript starts with
Greeting ==
    [role |-> "model",
     text |-> <<"Welcome. I am your design assistant. How may I assist with your vision today?">>,
     image |-> Null]

\* ChatBot.tsx:7-18, the state of a ChatBot that mounts
NewChatBot ==
    [isOpen |-> FALSE, messages |-> <<Greeting>>, inputValue |-> <<>>,
     isLoading |-> FALSE, selectedImage |-> Null, isDragging |-> FALSE,
     dragCounter |-> 0]

\* what a handler of App leaves alone outside App: the preview flag, the
\* ChatBot below it and the promises of the ChatBot
ComponentsKept ==
    UNCHANGED <<showFullPreview, chatBot, sends, chatReaders>>

\* a slider whose state is kept while it is off the canvas
renderKeepsState ==
    slider' = IF slider # Null THEN slider
              ELSE IF SliderShown' THEN NewSlider ELSE Null

\* The render that follows the state updates of a handler: the
\* ComparisonSlider keeps its state while it stays on the canvas, mounts
\* with its initial state when it comes to it, and loses its state when it
\* leaves (App.tsx:538, 567-575).
render ==
    slider' = IF SliderShown'
              THEN IF SliderShown THEN slider ELSE NewSlider
              ELSE Null

Pending ==
    BagCardinality(readers) + BagCardinality(gens)
        + BagCardinality(analyzes) + BagCardinality(scans)
        + BagCardinality(sends) + BagCardinality(chatReaders)
CanStart == Pending < MaxPending

isGenerating == appState = GENERATING \/ appState = VIDEO_GENERATING

\* App.tsx:366, the description panel is rendered
PanelShown ==
    /\ ~PreviewShown
    /\ (appState = DESCRIBE \/ isGenerating) /\ originalImage # Null

\* what ran last: the handler, the file or the pending call it was about,
\* and what the environment answered
Event(op, arg, out) == [op |-> op, arg |-> arg, out |-> out]

\* ---------------------------------------------------------------- Init
\* the useState and useRef initial values of App (App.tsx:10-37)
Mounted ==
    /\ appState = UPLOAD
    /\ originalImage = Null
    /\ generatedImage = Null
    /\ generatedVideo = Null
    /\ generatedAnalysis = NullText
    /\ prompt = <<>>
    /\ error = NullText
    /\ isAnalyzing = FALSE
    /\ isScanning = FALSE
    /\ detectedFeatures = <<>>
    /\ videoResolution = "720p"
    /\ videoAspectRatio = "16:9"
    /\ mediaType = "image"
    /\ mode = "image"
    /\ fileName = ""
    /\ readers = EmptyBag
    /\ gens = EmptyBag
    /\ analyzes = EmptyBag
    /\ scans = EmptyBag
    /\ showFullPreview = FALSE
    /\ isDragging = FALSE
    /\ dragCounter = 0
    /\ slider = Null
    /\ chatBot = NewChatBot
    /\ sends = EmptyBag
    /\ chatReaders = EmptyBag
    /\ last = Event("mount", Null, Null)

\* The page is served on its own: the build has an API key or has none, and
\* there is no window.aistudio.
Init ==
    /\ Mounted
    /\ apiKey \in BOOLEAN
    /\ aistudio = FALSE

\* The page runs on its own or inside AI Studio, which provides
\* window.aistudio for the key selection.
InitVideo ==
    /\ Mounted
    /\ apiKey \in BOOLEAN
    /\ aistudio \in BOOLEAN

\* ------------------------------------------------------------ upload intake
\* processFile without the return of App.tsx:45: the file is read anyway
processFileNoReturn(file) ==
    /\ ~PreviewShown
    /\ appState = UPLOAD
    /\ CanStart
    /\ error' = IF ~isImage(file) /\ ~isVideo(file)
                THEN InvalidUploadMsg ELSE error
    /\ fileName' = file.name
    /\ detectedFeatures' = <<>>
    /\ generatedVideo' = Null
    /\ generatedImage' = Null
    /\ generatedAnalysis' = NullText
    /\ mediaType' = IF isImage(file) THEN "image" ELSE "video"
    /\ mode' = IF isVideo(file) THEN "analysis" ELSE "image"
    /\ readers' = readers (+) SetToBag({file})
    /\ UNCHANGED <<appState, originalImage, prompt, isAnalyzing, isScanning,
                   videoResolution, videoAspectRatio, gens, analyzes, scans,
                   apiKey, aistudio>>
    /\ ComponentsKept
    /\ render

\* handleFileUpload / handleDrop -> processFile (App.tsx:39-72); the drop
\* zone and the file input are rendered only in UPLOAD (App.tsx:308).
processFile(file) ==
    /\ ~PreviewShown
    /\ appState = UPLOAD
    /\ IF ~isImage(file) /\ ~isVideo(file)
       THEN /\ error' = InvalidUploadMsg
            /\ UNCHANGED <<fileName, detectedFeatures, generatedVideo,
                           generatedImage, generatedAnalysis, mediaType,
                           mode, readers>>
       ELSE /\ CanStart
            /\ fileName' = file.name
            /\ detectedFeatures' = <<>>
            /\ generatedVideo' = Null
            /\ generatedImage' = Null
            /\ generatedAnalysis' = NullText
            /\ mediaType' = IF isImage(file) THEN "image" ELSE "video"
            /\ mode' = IF isVideo(file) THEN "analysis" ELSE "image"
            /\ readers' = readers (+) SetToBag({file})
            /\ UNCHANGED error
    /\ UNCHANGED <<appState, originalImage, prompt, isAnalyzing, isScanning,
                   videoResolution, videoAspectRatio, gens, analyzes, scans,
                   apiKey, aistudio>>
    /\ ComponentsKept
    /\ render

\* handleFileUpload (App.tsx:74-78), a file chosen in the picker
handleFileUpload(file) ==
    /\ processFile(file)
    /\ UNCHANGED <<isDragging, dragCounter>>
    /\ last' = Event("processFile", file, Null)

\* dragenter events on the drop zone without a matching dragleave
MaxDrag == 3

\* handleDragEnter (App.tsx:80-89); the drop zone is rendered in UPLOAD
\* (App.tsx:308-343)
handleDragEnter(hasFiles) ==
    /\ ~PreviewShown
    /\ appState = UPLOAD
    /\ IF hasFiles
       THEN /\ dragCounter < MaxDrag
            /\ dragCounter' = dragCounter + 1
            /\ isDragging' = TRUE
       ELSE UNCHANGED <<dragCounter, isDragging>>
    /\ UNCHANGED AppVars
    /\ ComponentsKept
    /\ last' = Event("handleDragEnter", hasFiles, Null)
    /\ render

\* a handleDragLeave that only counts down
handleDragLeaveCountsDown ==
    /\ ~PreviewShown
    /\ appState = UPLOAD
    /\ dragCounter' = dragCounter - 1
    /\ isDragging' = IF dragCounter - 1 = 0 THEN FALSE ELSE isDragging
    /\ UNCHANGED AppVars
    /\ ComponentsKept
    /\ last' = Event("handleDragLeave", Null, Null)
    /\ render

\* handleDragLeave (App.tsx:96-105)
handleDragLeave ==
    /\ ~PreviewShown
    /\ appState = UPLOAD
    /\ IF dragCounter - 1 <= 0
       THEN /\ isDragging' = FALSE
            /\ dragCounter' = 0
       ELSE /\ dragCounter' = dragCounter - 1
            /\ UNCHANGED isDragging
    /\ UNCHANGED AppVars
    /\ ComponentsKept
    /\ last' = Event("handleDragLeave", Null, Null)
    /\ render

\* e.dataTransfer.files?.[0] of a drop that carries no file
NoFile == [name |-> "", type |-> <<>>]

\* handleDrop (App.tsx:107-114)
handleDrop(file) ==
    /\ isDragging' = FALSE
    /\ dragCounter' = 0
    /\ IF file = NoFile
       THEN /\ ~PreviewShown
            /\ appState = UPLOAD
            /\ UNCHANGED AppVars
            /\ ComponentsKept
            /\ render
       ELSE processFile(file)
    /\ last' = Event("handleDrop", file, Null)

\* reader.onloadend (App.tsx:63-70)
onloadend(file) ==
    /\ BagIn(file, readers)
    /\ readers' = readers (-) SetToBag({file})
    /\ originalImage' = ImageData(file)
    /\ error' = NullText
    /\ appState' = DESCRIBE
    /\ UNCHANGED <<generatedImage, generatedVideo, generatedAnalysis, prompt,
                   isAnalyzing, isScanning, detectedFeatures, videoResolution,
                   videoAspectRatio, mediaType, mode, fileName, gens,
                   analyzes, scans, apiKey, aistudio>>
    /\ last' = Event("onloadend", file, Null)
    /\ ComponentsKept
    /\ UNCHANGED <<isDragging, dragCounter>>
    /\ render

\* ------------------------------------------------------ description panel
\* textarea onChange (App.tsx:504-510), disabled while generating
setPrompt(text) ==
    /\ PanelShown
    /\ ~isGenerating
    /\ prompt' = text
    /\ UNCHANGED <<appState, originalImage, generatedImage, generatedVideo,
                   generatedAnalysis, error, isAnalyzing, isScanning,
                   detectedFeatures, videoResolution, videoAspectRatio,
                   mediaType, mode, fileName, readers, gens, analyzes, scans,
                   apiKey, aistudio>>
    /\ last' = Event("setPrompt", Null, Null)
    /\ ComponentsKept
    /\ UNCHANGED <<isDragging, dragCounter>>
    /\ render

\* mode toggles (App.tsx:394-415)
setMode(m) ==
    /\ PanelShown
    /\ mediaType = "image"
    /\ ~isGenerating
    /\ mode' = m
    /\ UNCHANGED <<appState, originalImage, generatedImage, generatedVideo,
                   generatedAnalysis, prompt, error, isAnalyzing, isScanning,
                   detectedFeatures, videoResolution, videoAspectRatio,
                   mediaType, fileName, readers, gens, analyzes, scans,
                   apiKey, aistudio>>
    /\ last' = Event("setMode", Null, Null)
    /\ ComponentsKept
    /\ UNCHANGED <<isDragging, dragCounter>>
    /\ render

\* video options (App.tsx:449-492)
setVideoAspectRatio(a) ==
    /\ PanelShown
    /\ mode = "video"
    /\ videoAspectRatio' = a
    /\ UNCHANGED <<appState, originalImage, generatedImage, generatedVideo,
                   generatedAnalysis, prompt, error, isAnalyzing, isScanning,
                   detectedFeatures, videoResolution, mediaType, mode,
                   fileName, readers, gens, analyzes, scans, apiKey, aistudio>>
    /\ last' = Event("setVideoAspectRatio", Null, Null)
    /\ ComponentsKept
    /\ UNCHANGED <<isDragging, dragCounter>>
    /\ render

setVideoResolution(r) ==
    /\ PanelShown
    /\ mode = "video"
    /\ videoResolution' = r
    /\ UNCHANGED <<appState, originalImage, generatedImage, generatedVideo,
                   generatedAnalysis, prompt, error, isAnalyzing, isScanning,
                   detectedFeatures, videoAspectRatio, mediaType, mode,
                   fileName, readers, gens, analyzes, scans, apiKey, aistudio>>
    /\ last' = Event("setVideoResolution", Null, Null)
    /\ ComponentsKept
    /\ UNCHANGED <<isDragging, dragCounter>>
    /\ render

\* a Cancel that also drops the pending generations
CancelAborts ==
    /\ PanelShown
    /\ appState' = UPLOAD
    /\ gens' = EmptyBag
    /\ UNCHANGED <<originalImage, generatedImage, generatedVideo,
                   generatedAnalysis, prompt, error, isAnalyzing, isScanning,
                   detectedFeatures, videoResolution, videoAspectRatio,
                   mediaType, mode, fileName, readers, analyzes, scans,
                   apiKey, aistudio>>
    /\ last' = Event("Cancel", Null, Null)
    /\ ComponentsKept
    /\ UNCHANGED <<isDragging, dragCounter>>
    /\ render

\* Cancel button (App.tsx:519-524), not disabled while generating
Cancel ==
    /\ PanelShown
    /\ appState' = UPLOAD
    /\ UNCHANGED <<originalImage, generatedImage, generatedVideo,
                   generatedAnalysis, prompt, error, isAnalyzing, isScanning,
                   detectedFeatures, videoResolution, videoAspectRatio,
                   mediaType, mode, fileName, readers, gens, analyzes, scans,
                   apiKey, aistudio>>
    /\ last' = Event("Cancel", Null, Null)
    /\ ComponentsKept
    /\ UNCHANGED <<isDragging, dragCounter>>
    /\ render

\* the close button of the error banner (App.tsx:303)
dismissError ==
    /\ ~PreviewShown
    /\ error # NullText
    /\ error' = NullText
    /\ UNCHANGED <<appState, originalImage, generatedImage, generatedVideo,
                   generatedAnalysis, prompt, isAnalyzing, isScanning,
                   detectedFeatures, videoResolution, videoAspectRatio,
                   mediaType, mode, fileName, readers, gens, analyzes, scans,
                   apiKey, aistudio>>
    /\ last' = Event("dismissError", Null, Null)
    /\ ComponentsKept
    /\ UNCHANGED <<isDragging, dragCounter>>
    /\ render

\* ---------------------------------------------------------------- result
\* a Refine that goes on from the generated image: the output becomes the
\* input of the next generation
handleRefineOnOutput ==
    /\ ~PreviewShown
    /\ appState = RESULT
    /\ appState' = DESCRIBE
    /\ originalImage' = IF generatedImage # Null THEN generatedImage
                        ELSE originalImage
    /\ UNCHANGED <<generatedImage, generatedVideo,
                   generatedAnalysis, prompt, error, isAnalyzing, isScanning,
                   detectedFeatures, videoResolution, videoAspectRatio,
                   mediaType, mode, fileName, readers, gens, analyzes, scans,
                   apiKey, aistudio>>
    /\ last' = Event("handleRefine", Null, Null)
    /\ ComponentsKept
    /\ UNCHANGED <<isDragging, dragCounter>>
    /\ render

\* handleRefine (App.tsx:219-221)
handleRefine ==
    /\ ~PreviewShown
    /\ appState = RESULT
    /\ appState' = DESCRIBE
    /\ UNCHANGED <<originalImage, generatedImage, generatedVideo,
                   generatedAnalysis, prompt, error, isAnalyzing, isScanning,
                   detectedFeatures, videoResolution, videoAspectRatio,
                   mediaType, mode, fileName, readers, gens, analyzes, scans,
                   apiKey, aistudio>>
    /\ last' = Event("handleRefine", Null, Null)
    /\ ComponentsKept
    /\ UNCHANGED <<isDragging, dragCounter>>
    /\ render

\* handleReset (App.tsx:203-217)
handleReset ==
    /\ ~PreviewShown
    /\ appState = RESULT
    /\ appState' = UPLOAD
    /\ originalImage' = Null
    /\ generatedImage' = Null
    /\ generatedVideo' = Null
    /\ generatedAnalysis' = NullText
    /\ prompt' = <<>>
    /\ error' = NullText
    /\ fileName' = ""
    /\ detectedFeatures' = <<>>
    /\ mediaType' = "image"
    /\ mode' = "image"
    /\ videoResolution' = "720p"
    /\ videoAspectRatio' = "16:9"
    /\ UNCHANGED <<isAnalyzing, isScanning, readers, gens, analyzes, scans,
                   apiKey, aistudio>>
    /\ last' = Event("handleReset", Null, Null)
    /\ ComponentsKept
    /\ UNCHANGED <<isDragging, dragCounter>>
    /\ render

\* ------------------------------------------------------------ generation
\* The continuation of one handleGenerate call: the originalImage and the
\* prompt its closure captured and hands to the service function
\* (App.tsx:123, 146, 156; generateVideo takes these two parameters only,
\* geminiService.ts:177-180), the await it is suspended at, and for a video
\* the operation it last received.
NewGen(kind, pc) ==
    [kind |-> kind, img |-> originalImage, prompt |-> prompt,
     pc |-> pc, op |-> Null]

One(x) == SetToBag({x})

\* the catch blocks of handleGenerate (App.tsx:126-129, 149-152, 159-162)
catchGenerate(message, fallback) ==
    /\ error' = IF message = "" THEN fallback ELSE message
    /\ appState' = DESCRIBE

GenFallback(kind) ==
    CASE kind = "image" -> "Failed to generate image."
      [] kind = "video" -> "Failed to generate video."
      [] kind = "analysis" -> "Failed to analyze video."

\* App.tsx:144-146 up to the first await of generateVideo
\* (geminiService.ts:181-185): getClient throws when the key is missing.
startVideo(g, rest, err) ==
    IF apiKey
    THEN /\ appState' = VIDEO_GENERATING
         /\ error' = err
         /\ gens' = rest (+) One([g EXCEPT !.pc = "submit"])
    ELSE /\ catchGenerate(MissingKeyMsg, GenFallback("video"))
         /\ gens' = rest

\* handleGenerate (App.tsx:116-164) up to its first await; the Execute
\* button is enabled by App.tsx:527.
handleGenerate ==
    /\ PanelShown
    /\ ~((TrimIsEmpty(prompt) /\ mode # "analysis") \/ isGenerating)
    /\ IF originalImage = Null \/ TrimIsEmpty(prompt)
       THEN UNCHANGED <<appState, error, gens>>
       ELSE /\ CanStart
            /\ CASE mode = "image" ->
                      IF apiKey
                      THEN /\ appState' = GENERATING
                           /\ error' = NullText
                           /\ gens' = gens (+) One(NewGen("image", "call"))
                      ELSE /\ catchGenerate(MissingKeyMsg, GenFallback("image"))
                           /\ UNCHANGED gens
                 [] mode = "video" ->
                      IF aistudio
                      THEN /\ error' = NullText
                           /\ gens' = gens (+) One(NewGen("video", "hasKey"))
                           /\ UNCHANGED appState
                      ELSE startVideo(NewGen("video", "start"), gens, NullText)
                 [] mode = "analysis" ->
                      IF apiKey
                      THEN /\ appState' = GENERATING
                           /\ error' = NullText
                           /\ gens' = gens (+) One(NewGen("analysis", "call"))
                      ELSE /\ catchGenerate(MissingKeyMsg, GenFallback("analysis"))
                           /\ UNCHANGED gens
    /\ UNCHANGED <<originalImage, generatedImage, generatedVideo,
                   generatedAnalysis, prompt, isAnalyzing, isScanning,
                   detectedFeatures, videoResolution, videoAspectRatio,
                   mediaType, mode, fileName, readers, analyzes, scans,
                   apiKey, aistudio>>
    /\ last' = Event("handleGenerate", Null, Null)
    /\ ComponentsKept
    /\ UNCHANGED <<isDragging, dragCounter>>
    /\ render

\* the frame of every continuation of handleGenerate
GenFrame ==
    UNCHANGED <<originalImage, prompt, isAnalyzing, isScanning,
                detectedFeatures, videoResolution, videoAspectRatio,
                mediaType, mode, fileName, readers, analyzes, scans,
                apiKey, aistudio>>

\* generateImageEdit (geminiService.ts:16-60) as seen by its caller
EditedImage(g) ==
    [base64 |-> <<"data", <<"image", "png">>, "edit", g.img.base64>>,
     mimeType |-> <<"image", "png">>]

\* App.tsx:123-125: generateContent answered with an inline image part
imageEditResolves(g) ==
    /\ BagIn(g, gens) /\ g.kind = "image" /\ g.pc = "call"
    /\ gens' = gens (-) One(g)
    /\ generatedImage' = EditedImage(g)
    /\ appState' = RESULT
    /\ UNCHANGED <<generatedVideo, generatedAnalysis, error>>
    /\ GenFrame
    /\ last' = Event("imageEditResolves", g, Null)
    /\ ComponentsKept
    /\ UNCHANGED <<isDragging, dragCounter>>
    /\ render

\* a catch that issues the same call once more and shows nothing
imageEditRetries(g, message) ==
    /\ BagIn(g, gens) /\ g.kind = "image" /\ g.pc = "call"
    /\ UNCHANGED <<gens, appState, error>>
    /\ UNCHANGED <<generatedImage, generatedVideo, generatedAnalysis>>
    /\ GenFrame
    /\ last' = Event("imageEditRejects", g, message)
    /\ ComponentsKept
    /\ UNCHANGED <<isDragging, dragCounter>>
    /\ render

\* App.tsx:126-129: generateContent rejected, or answered without an image
\* (geminiService.ts:55)
imageEditRejects(g, message) ==
    /\ BagIn(g, gens) /\ g.kind = "image" /\ g.pc = "call"
    /\ gens' = gens (-) One(g)
    /\ catchGenerate(message, GenFallback("image"))
    /\ UNCHANGED <<generatedImage, generatedVideo, generatedAnalysis>>
    /\ GenFrame
    /\ last' = Event("imageEditRejects", g, message)
    /\ ComponentsKept
    /\ UNCHANGED <<isDragging, dragCounter>>
    /\ render

\* analyzeVideo (geminiService.ts:142-172) resolved; App.tsx:156-158
AnalysisTexts == { "", "a report" }

analyzeVideoResolves(g, text) ==
    /\ BagIn(g, gens) /\ g.kind = "analysis" /\ g.pc = "call"
    /\ gens' = gens (-) One(g)
    /\ generatedAnalysis' =
          IF text = "" THEN "No analysis could be generated." ELSE text
    /\ appState' = RESULT
    /\ UNCHANGED <<generatedImage, generatedVideo, error>>
    /\ GenFrame
    /\ last' = Event("analyzeVideoResolves", g, text)
    /\ ComponentsKept
    /\ UNCHANGED <<isDragging, dragCounter>>
    /\ render

\* geminiService.ts:168-171 and App.tsx:159-162
analyzeVideoRejects(g) ==
    /\ BagIn(g, gens) /\ g.kind = "analysis" /\ g.pc = "call"
    /\ gens' = gens (-) One(g)
    /\ catchGenerate(AnalyzeVideoMsg, GenFallback("analysis"))
    /\ UNCHANGED <<generatedImage, generatedVideo, generatedAnalysis>>
    /\ GenFrame
    /\ last' = Event("analyzeVideoRejects", g, Null)
    /\ ComponentsKept
    /\ UNCHANGED <<isDragging, dragCounter>>
    /\ render

\* ------------------------------------------------------- video generation
\* window.aistudio.hasSelectedApiKey() resolved (App.tsx:133-142)
hasSelectedApiKeyResolves(g, hasKey) ==
    /\ BagIn(g, gens) /\ g.pc = "hasKey"
    /\ IF hasKey
       THEN startVideo(g, gens (-) One(g), error)
       ELSE /\ gens' = (gens (-) One(g)) (+) One([g EXCEPT !.pc = "openKey"])
            /\ UNCHANGED <<appState, error>>
    /\ UNCHANGED <<generatedImage, generatedVideo, generatedAnalysis>>
    /\ GenFrame
    /\ last' = Event("hasSelectedApiKeyResolves", g, hasKey)
    /\ ComponentsKept
    /\ UNCHANGED <<isDragging, dragCounter>>
    /\ render

\* window.aistudio.hasSelectedApiKey() rejected: the await of App.tsx:133
\* is outside every try, handleGenerate ends there
hasSelectedApiKeyRejects(g) ==
    /\ BagIn(g, gens) /\ g.pc = "hasKey"
    /\ gens' = gens (-) One(g)
    /\ UNCHANGED <<appState, error, generatedImage, generatedVideo,
                   generatedAnalysis>>
    /\ GenFrame
    /\ last' = Event("hasSelectedApiKeyRejects", g, Null)
    /\ ComponentsKept
    /\ UNCHANGED <<isDragging, dragCounter>>
    /\ render

\* window.aistudio.openSelectKey() resolved (App.tsx:136, 144)
openSelectKeyResolves(g) ==
    /\ BagIn(g, gens) /\ g.pc = "openKey"
    /\ startVideo(g, gens (-) One(g), error)
    /\ UNCHANGED <<generatedImage, generatedVideo, generatedAnalysis>>
    /\ GenFrame
    /\ last' = Event("openSelectKeyResolves", g, Null)
    /\ ComponentsKept
    /\ UNCHANGED <<isDragging, dragCounter>>
    /\ render

\* window.aistudio.openSelectKey() rejected (App.tsx:137-140)
openSelectKeyRejects(g) ==
    /\ BagIn(g, gens) /\ g.pc = "openKey"
    /\ gens' = gens (-) One(g)
    /\ error' = KeySelectMsg
    /\ UNCHANGED <<appState, generatedImage, generatedVideo, generatedAnalysis>>
    /\ GenFrame
    /\ last' = Event("openSelectKeyRejects", g, Null)
    /\ ComponentsKept
    /\ UNCHANGED <<isDragging, dragCounter>>
    /\ render

\* the bytes of a data URL: base64.split(',')[1] || base64
Payload(base64) == IF Len(base64) >= 3 THEN base64[3] ELSE base64

\* the request of ai.models.generateVideos for a generation
\* (geminiService.ts:185-197): generateVideo is handed the image and the
\* prompt, and writes the config itself
generateVideosRequest(g) ==
    [model |-> "veo-3.1-fast-generate-preview",
     prompt |-> g.prompt \o <<" (Cinematic landscaping visualization, high quality, photorealistic, smooth motion)">>,
     image |-> [imageBytes |-> Payload(g.img.base64),
                mimeType |-> g.img.mimeType],
     config |-> [numberOfVideos |-> 1,
                 resolution |-> "720p",
                 aspectRatio |-> "16:9"]]

\* The operation handle the service answers with: its completion flag, and
\* whether response.generatedVideos[0].video.uri is there.
Operations ==
    { [done |-> FALSE, uri |-> FALSE],
      [done |-> TRUE, uri |-> FALSE],
      [done |-> TRUE, uri |-> TRUE] }

\* a loop that checks the status once more whatever the operation says
pollAgainAlways(operation) == TRUE

\* the loop condition of geminiService.ts:200
pollAgain(operation) == ~operation.done

\* the same without the check of the URI: the bytes are fetched from
\* whatever the finished operation holds
afterOperationNoUriCheck(g, operation) ==
    IF pollAgain(operation)
    THEN /\ gens' = (gens (-) One(g))
                      (+) One([g EXCEPT !.pc = "sleep", !.op = operation])
         /\ UNCHANGED <<appState, error>>
    ELSE /\ gens' = (gens (-) One(g))
                      (+) One([g EXCEPT !.pc = "fetch", !.op = operation])
         /\ UNCHANGED <<appState, error>>

\* geminiService.ts:200-214 from a received operation to the next await
afterOperation(g, operation) ==
    IF pollAgain(operation)
    THEN /\ gens' = (gens (-) One(g))
                      (+) One([g EXCEPT !.pc = "sleep", !.op = operation])
         /\ UNCHANGED <<appState, error>>
    ELSE IF ~operation.uri
    THEN /\ gens' = gens (-) One(g)
         /\ catchGenerate(NoUriMsg, GenFallback("video"))
    ELSE /\ gens' = (gens (-) One(g))
                      (+) One([g EXCEPT !.pc = "fetch", !.op = operation])
         /\ UNCHANGED <<appState, error>>

\* ai.models.generateVideos resolved (geminiService.ts:185-197)
generateVideosResolves(g, operation) ==
    /\ BagIn(g, gens) /\ g.pc = "submit"
    /\ afterOperation(g, operation)
    /\ UNCHANGED <<generatedImage, generatedVideo, generatedAnalysis>>
    /\ GenFrame
    /\ last' = Event("generateVideosResolves", g, operation)
    /\ ComponentsKept
    /\ UNCHANGED <<isDragging, dragCounter>>
    /\ render

\* the 5 s timer of geminiService.ts:201 fired; the status check is issued
timerFires(g) ==
    /\ BagIn(g, gens) /\ g.pc = "sleep"
    /\ gens' = (gens (-) One(g)) (+) One([g EXCEPT !.pc = "poll"])
    /\ UNCHANGED <<appState, error, generatedImage, generatedVideo,
                   generatedAnalysis>>
    /\ GenFrame
    /\ last' = Event("timerFires", g, Null)
    /\ ComponentsKept
    /\ UNCHANGED <<isDragging, dragCounter>>
    /\ render

\* ai.operations.getVideosOperation resolved (geminiService.ts:202)
getVideosOperationResolves(g, operation) ==
    /\ BagIn(g, gens) /\ g.pc = "poll"
    /\ afterOperation(g, operation)
    /\ UNCHANGED <<generatedImage, generatedVideo, generatedAnalysis>>
    /\ GenFrame
    /\ last' = Event("getVideosOperationResolves", g, operation)
    /\ ComponentsKept
    /\ UNCHANGED <<isDragging, dragCounter>>
    /\ render

\* fetch(videoUrlWithKey) resolved (geminiService.ts:214-218)
fetchResolves(g, ok) ==
    /\ BagIn(g, gens) /\ g.pc = "fetch"
    /\ IF ok
       THEN /\ gens' = (gens (-) One(g)) (+) One([g EXCEPT !.pc = "blob"])
            /\ UNCHANGED <<appState, error>>
       ELSE /\ gens' = gens (-) One(g)
            /\ catchGenerate(DownloadMsg, GenFallback("video"))
    /\ UNCHANGED <<generatedImage, generatedVideo, generatedAnalysis>>
    /\ GenFrame
    /\ last' = Event("fetchResolves", g, ok)
    /\ ComponentsKept
    /\ UNCHANGED <<isDragging, dragCounter>>
    /\ render

\* videoResponse.blob() resolved (geminiService.ts:218-224, App.tsx:147-148)
blobResolves(g) ==
    /\ BagIn(g, gens) /\ g.pc = "blob"
    /\ gens' = gens (-) One(g)
    /\ generatedVideo' = [videoUrl |-> <<"blob", g.img.base64>>,
                          mimeType |-> <<"video", "mp4">>]
    /\ appState' = RESULT
    /\ UNCHANGED <<generatedImage, generatedAnalysis, error>>
    /\ GenFrame
    /\ last' = Event("blobResolves", g, Null)
    /\ ComponentsKept
    /\ UNCHANGED <<isDragging, dragCounter>>
    /\ render

\* the awaits of generateVideo that are requests to the service
VideoRequests == {"submit", "poll", "fetch", "blob"}

\* one of them rejected (geminiService.ts:226-229, App.tsx:149-152)
videoCallRejects(g, message) ==
    /\ BagIn(g, gens) /\ g.pc \in VideoRequests
    /\ gens' = gens (-) One(g)
    /\ catchGenerate(message, GenFallback("video"))
    /\ UNCHANGED <<generatedImage, generatedVideo, generatedAnalysis>>
    /\ GenFrame
    /\ last' = Event("videoCallRejects", g, message)
    /\ ComponentsKept
    /\ UNCHANGED <<isDragging, dragCounter>>
    /\ render

\* ------------------------------------------------------ intelligence tools
\* App.tsx:426, the two tool buttons are rendered
ToolsShown == PanelShown /\ mediaType = "image" /\ mode = "image"

AssistFrame ==
    UNCHANGED <<appState, originalImage, generatedImage, generatedVideo,
                generatedAnalysis, videoResolution, videoAspectRatio,
                mediaType, mode, fileName, readers, gens, apiKey, aistudio>>

\* handleAnalyze (App.tsx:166-181) up to its await; the Auto-Suggest button
\* is disabled while isAnalyzing (App.tsx:437)
handleAnalyze ==
    /\ ToolsShown
    /\ ~isAnalyzing
    /\ originalImage # Null
    /\ IF apiKey
       THEN /\ CanStart
            /\ isAnalyzing' = TRUE
            /\ error' = NullText
            /\ analyzes' = analyzes (+) One([img |-> originalImage])
       ELSE /\ isAnalyzing' = FALSE
            /\ error' = AnalyzeImageMsg
            /\ UNCHANGED analyzes
    /\ UNCHANGED <<prompt, isScanning, detectedFeatures, scans>>
    /\ AssistFrame
    /\ last' = Event("handleAnalyze", Null, Null)
    /\ ComponentsKept
    /\ UNCHANGED <<isDragging, dragCounter>>
    /\ render

\* analyzeImage resolved (geminiService.ts:132, App.tsx:171-175, 178-180)
analyzeImageResolves(a, suggestion) ==
    /\ BagIn(a, analyzes)
    /\ Len(appendSuggestion(prompt, suggestion)) <= MaxPrompt
    /\ analyzes' = analyzes (-) One(a)
    /\ prompt' = appendSuggestion(prompt, suggestion)
    /\ isAnalyzing' = FALSE
    /\ UNCHANGED <<error, isScanning, detectedFeatures, scans>>
    /\ AssistFrame
    /\ last' = Event("analyzeImageResolves", a, suggestion)
    /\ ComponentsKept
    /\ UNCHANGED <<isDragging, dragCounter>>
    /\ render

\* analyzeImage rejected (geminiService.ts:133-136, App.tsx:176-180)
analyzeImageRejects(a) ==
    /\ BagIn(a, analyzes)
    /\ analyzes' = analyzes (-) One(a)
    /\ error' = AnalyzeImageMsg
    /\ isAnalyzing' = FALSE
    /\ UNCHANGED <<prompt, isScanning, detectedFeatures, scans>>
    /\ AssistFrame
    /\ last' = Event("analyzeImageRejects", a, Null)
    /\ ComponentsKept
    /\ UNCHANGED <<isDragging, dragCounter>>
    /\ render

\* handleScanFeatures (App.tsx:183-194) up to its await; the Identify
\* Features button is never disabled (App.tsx:428-434)
handleScanFeatures ==
    /\ ToolsShown
    /\ originalImage # Null
    /\ IF apiKey
       THEN /\ CanStart
            /\ isScanning' = TRUE
            /\ scans' = scans (+) One([img |-> originalImage])
       ELSE /\ isScanning' = FALSE
            /\ UNCHANGED scans
    /\ UNCHANGED <<prompt, error, isAnalyzing, detectedFeatures, analyzes>>
    /\ AssistFrame
    /\ last' = Event("handleScanFeatures", Null, Null)
    /\ ComponentsKept
    /\ UNCHANGED <<isDragging, dragCounter>>
    /\ render

\* identifyFeatures resolved with the labels of the answer
\* (geminiService.ts:89-93, App.tsx:187-188, 191-193)
identifyFeaturesResolves(s, features) ==
    /\ BagIn(s, scans)
    /\ scans' = scans (-) One(s)
    /\ detectedFeatures' = features
    /\ isScanning' = FALSE
    /\ UNCHANGED <<prompt, error, isAnalyzing, analyzes>>
    /\ AssistFrame
    /\ last' = Event("identifyFeaturesResolves", s, features)
    /\ ComponentsKept
    /\ UNCHANGED <<isDragging, dragCounter>>
    /\ render

\* the request of identifyFeatures failed: it returns the empty list
\* (geminiService.ts:94-97)
identifyFeaturesFails(s) ==
    /\ BagIn(s, scans)
    /\ scans' = scans (-) One(s)
    /\ detectedFeatures' = <<>>
    /\ isScanning' = FALSE
    /\ UNCHANGED <<prompt, error, isAnalyzing, analyzes>>
    /\ AssistFrame
    /\ last' = Event("identifyFeaturesFails", s, Null)
    /\ ComponentsKept
    /\ UNCHANGED <<isDragging, dragCounter>>
    /\ render

\* addFeatureToPrompt (App.tsx:196-201), a click on a feature chip
\* (App.tsx:494-500)
addFeatureToPrompt(i) ==
    /\ PanelShown
    /\ i \in 1..Len(detectedFeatures)
    /\ Len(prompt) < MaxPrompt
    /\ prompt' = keepFeature(prompt, detectedFeatures[i])
    /\ UNCHANGED <<error, isAnalyzing, isScanning, detectedFeatures,
                   analyzes, scans>>
    /\ AssistFrame
    /\ last' = Event("addFeatureToPrompt", Null, i)
    /\ ComponentsKept
    /\ UNCHANGED <<isDragging, dragCounter>>
    /\ render

\* ------------------------------------------------------ full-screen preview
\* The promises of an unmounted component stay in flight, and the state
\* updates of their continuations do nothing: all that is kept of them is
\* that they are pending.
Orphaned(b) ==
    IF BagCardinality(b) = 0 THEN EmptyBag
    ELSE [x \in {[mounted |-> FALSE]} |-> BagCardinality(b)]

\* handleImageClick (App.tsx:227-229), the Fullscreen button of the slider
\* (ComparisonSlider.tsx:165-176).  The next render returns the preview in
\* place of the page (App.tsx:233-266): the page's ChatBot (App.tsx:628)
\* and ComparisonSlider are unmounted.
handleImageClick ==
    /\ SliderShown
    /\ showFullPreview' = TRUE
    /\ UNCHANGED AppVars
    /\ UNCHANGED <<isDragging, dragCounter>>
    /\ chatBot' = IF PreviewShown' THEN Null ELSE chatBot
    /\ sends' = IF PreviewShown' THEN Orphaned(sends) ELSE sends
    /\ chatReaders' = IF PreviewShown' THEN Orphaned(chatReaders) ELSE chatReaders
    /\ last' = Event("handleImageClick", Null, Null)
    /\ render

\* the two close buttons of the preview (App.tsx:239, 249): the page is
\* rendered again and its components mount with their initial state
closePreview ==
    /\ PreviewShown
    /\ showFullPreview' = FALSE
    /\ UNCHANGED AppVars
    /\ UNCHANGED <<isDragging, dragCounter, sends, chatReaders>>
    /\ chatBot' = NewChatBot
    /\ last' = Event("closePreview", Null, Null)
    /\ render

\* -------------------------------------------------------------------- chat
\* transcript entries of one ChatBot
MaxMessages == 5

\* String.prototype.trim on a text given as its chunks
RECURSIVE trimStart(_)
trimStart(p) ==
    IF p # <<>> /\ Head(p) \in Blank THEN trimStart(Tail(p)) ELSE p

RECURSIVE trimEnd(_)
trimEnd(p) ==
    IF p # <<>> /\ p[Len(p)] \in Blank
    THEN trimEnd(SubSeq(p, 1, Len(p) - 1))
    ELSE p

trim(p) == trimEnd(trimStart(p))

\* what the user types into the chat input
ChatInputs == { <<>>, <<" ">>, <<" ", "hello">> }
\* result.text of the chat endpoint
ReplyTexts == { <<>>, <<"a reply">> }

Apology ==
    [role |-> "model",
     text |-> <<"Service temporarily unavailable. Please try again.">>,
     image |-> Null]

\* the parts of one message (geminiService.ts:245-259, 288-303)
sdkParts(text, image, fallback) ==
    LET textPart == IF TrimIsEmpty(text) THEN <<>> ELSE <<[text |-> text]>>
        imagePart ==
            IF image = Null THEN <<>>
            ELSE <<[inlineData |-> [mimeType |-> image.mimeType,
                                    data |-> Payload(image.base64)]]>>
    IN  IF textPart \o imagePart = <<>>
        THEN <<[text |-> fallback]>>
        ELSE textPart \o imagePart

\* geminiService.ts:244-262
sdkHistory(history) ==
    [i \in 1..Len(history) |->
        [role |-> history[i].role,
         parts |-> sdkParts(history[i].text, history[i].image, <<"...">>)]]

\* what sendChatMessage hands to the endpoint: ai.chats.create with the
\* history, chat.sendMessage with the message (geminiService.ts:264-305)
ChatRequest(history, newMessage, image) ==
    [history |-> sdkHistory(history),
     message |-> sdkParts(newMessage, image, <<"Analyze this image">>),
     mounted |-> TRUE]

ChatFrame ==
    /\ UNCHANGED AppVars
    /\ UNCHANGED <<showFullPreview, isDragging, dragCounter, slider>>

\* a handleSend that reads the transcript after its own update: the history
\* holds the new user message too
handleSendUpdatedHistory ==
    LET userMsg == [role |-> "user", text |-> trim(chatBot.inputValue),
                    image |-> chatBot.selectedImage]
        accepted == [chatBot EXCEPT !.inputValue = <<>>,
                                    !.selectedImage = Null,
                                    !.messages = Append(@, userMsg)]
        request == ChatRequest(accepted.messages, userMsg.text, userMsg.image)
    IN  IF \/ TrimIsEmpty(chatBot.inputValue) /\ chatBot.selectedImage = Null
           \/ chatBot.isLoading
        THEN /\ UNCHANGED <<chatBot, sends>>
             /\ last' = Event("handleSend", Null, Null)
        ELSE IF apiKey
        THEN /\ CanStart
             /\ Len(chatBot.messages) + 2 <= MaxMessages
             /\ chatBot' = [accepted EXCEPT !.isLoading = TRUE]
             /\ sends' = sends (+) One(request)
             /\ last' = Event("handleSend", userMsg, request)
        ELSE /\ Len(chatBot.messages) + 2 <= MaxMessages
             /\ chatBot' = [accepted EXCEPT !.messages = Append(@, Apology),
                                            !.isLoading = FALSE]
             /\ UNCHANGED sends
             /\ last' = Event("handleSend", userMsg, Null)

\* a handleSend without the check of ChatBot.tsx:29
handleSendUnchecked ==
    LET userMsg == [role |-> "user", text |-> trim(chatBot.inputValue),
                    image |-> chatBot.selectedImage]
        accepted == [chatBot EXCEPT !.inputValue = <<>>,
                                    !.selectedImage = Null,
                                    !.messages = Append(@, userMsg)]
        request == ChatRequest(chatBot.messages, userMsg.text, userMsg.image)
    IN  IF apiKey
        THEN /\ CanStart
             /\ Len(chatBot.messages) + 2 <= MaxMessages
             /\ chatBot' = [accepted EXCEPT !.isLoading = TRUE]
             /\ sends' = sends (+) One(request)
             /\ last' = Event("handleSend", userMsg, request)
        ELSE /\ Len(chatBot.messages) + 2 <= MaxMessages
             /\ chatBot' = [accepted EXCEPT !.messages = Append(@, Apology),
                                            !.isLoading = FALSE]
             /\ UNCHANGED sends
             /\ last' = Event("handleSend", userMsg, Null)

\* handleSend (ChatBot.tsx:28-53) up to its await.  Without an API key
\* getClient throws inside sendChatMessage (geminiService.ts:240): the
\* promise is rejected at once and the catch and finally blocks run before
\* anything else does.
handleSend ==
    LET userMsg == [role |-> "user", text |-> trim(chatBot.inputValue),
                    image |-> chatBot.selectedImage]
        accepted == [chatBot EXCEPT !.inputValue = <<>>,
                                    !.selectedImage = Null,
                                    !.messages = Append(@, userMsg)]
        request == ChatRequest(chatBot.messages, userMsg.text, userMsg.image)
    IN  IF \/ TrimIsEmpty(chatBot.inputValue) /\ chatBot.selectedImage = Null
           \/ chatBot.isLoading
        THEN /\ UNCHANGED <<chatBot, sends>>
             /\ last' = Event("handleSend", Null, Null)
        ELSE IF apiKey
        THEN /\ CanStart
             /\ Len(chatBot.messages) + 2 <= MaxMessages
             /\ chatBot' = [accepted EXCEPT !.isLoading = TRUE]
             /\ sends' = sends (+) One(request)
             /\ last' = Event("handleSend", userMsg, request)
        ELSE /\ Len(chatBot.messages) + 2 <= MaxMessages
             /\ chatBot' = [accepted EXCEPT !.messages = Append(@, Apology),
                                            !.isLoading = FALSE]
             /\ UNCHANGED sends
             /\ last' = Event("handleSend", userMsg, Null)

\* the Send button (ChatBot.tsx:241-247); pointer events reach the panel
\* only while it is open (ChatBot.tsx:125-129)
clickSend ==
    /\ chatBot # Null
    /\ chatBot.isOpen
    /\ ~(\/ TrimIsEmpty(chatBot.inputValue) /\ chatBot.selectedImage = Null
         \/ chatBot.isLoading)
    /\ handleSend
    /\ UNCHANGED chatReaders
    /\ ChatFrame

\* a key pressed in the text input, Enter with or without Shift
Keys == { [key |-> "Enter", shiftKey |-> FALSE],
          [key |-> "Enter", shiftKey |-> TRUE] }

\* handleKeyPress (ChatBot.tsx:55-60); the input is disabled while a turn
\* is loading (ChatBot.tsx:237)
handleKeyPress(e) ==
    /\ chatBot # Null
    /\ ~chatBot.isLoading
    /\ IF e.key = "Enter" /\ ~e.shiftKey
       THEN handleSend
       ELSE /\ UNCHANGED <<chatBot, sends>>
            /\ last' = Event("handleKeyPress", e, Null)
    /\ UNCHANGED chatReaders
    /\ ChatFrame

\* the toggle button (ChatBot.tsx:115-123)
toggleChat ==
    /\ chatBot # Null
    /\ chatBot' = [chatBot EXCEPT !.isOpen = ~@]
    /\ UNCHANGED <<sends, chatReaders>>
    /\ last' = Event("toggleChat", Null, Null)
    /\ ChatFrame

\* onChange of the text input (ChatBot.tsx:230-238)
setInputValue(text) ==
    /\ chatBot # Null
    /\ ~chatBot.isLoading
    /\ chatBot' = [chatBot EXCEPT !.inputValue = text]
    /\ UNCHANGED <<sends, chatReaders>>
    /\ last' = Event("setInputValue", text, Null)
    /\ ChatFrame

\* the reply as appended to the transcript (geminiService.ts:306,
\* ChatBot.tsx:45-46)
BotMsg(text) ==
    [role |-> "model",
     text |-> IF text = <<>> THEN <<"I couldn't generate a response.">>
              ELSE text,
     image |-> Null]

\* chat.sendMessage resolved (geminiService.ts:305-306, ChatBot.tsx:44-52)
sendChatMessageResolves(s, text) ==
    /\ BagIn(s, sends)
    /\ sends' = sends (-) One(s)
    /\ chatBot' = IF s.mounted
                  THEN [chatBot EXCEPT !.messages = Append(@, BotMsg(text)),
                                       !.isLoading = FALSE]
                  ELSE chatBot
    /\ UNCHANGED chatReaders
    /\ last' = Event("sendChatMessageResolves", s, text)
    /\ ChatFrame

\* a failure that ends the turn without a message of the assistant
sendChatMessageRejectsSilently(s) ==
    /\ BagIn(s, sends)
    /\ sends' = sends (-) One(s)
    /\ chatBot' = IF s.mounted
                  THEN [chatBot EXCEPT !.isLoading = FALSE]
                  ELSE chatBot
    /\ UNCHANGED chatReaders
    /\ last' = Event("sendChatMessageRejects", s, Null)
    /\ ChatFrame

\* chat.sendMessage rejected (geminiService.ts:307-310, ChatBot.tsx:47-52)
sendChatMessageRejects(s) ==
    /\ BagIn(s, sends)
    /\ sends' = sends (-) One(s)
    /\ chatBot' = IF s.mounted
                  THEN [chatBot EXCEPT !.messages = Append(@, Apology),
                                       !.isLoading = FALSE]
                  ELSE chatBot
    /\ UNCHANGED chatReaders
    /\ last' = Event("sendChatMessageRejects", s, Null)
    /\ ChatFrame

\* processFile of ChatBot (ChatBot.tsx:62-72)
chatProcessFile(file) ==
    IF ~isImage(file)
    THEN UNCHANGED chatReaders
    ELSE /\ CanStart
         /\ chatReaders' = chatReaders (+) One([file |-> file, mounted |-> TRUE])

\* handleFileSelect (ChatBot.tsx:74-78), a file chosen with the paperclip
handleFileSelect(file) ==
    /\ chatBot # Null
    /\ chatBot.isOpen
    /\ chatProcessFile(file)
    /\ UNCHANGED <<chatBot, sends>>
    /\ last' = Event("handleFileSelect", file, Null)
    /\ ChatFrame

\* reader.onloadend of ChatBot (ChatBot.tsx:65-70)
chatOnloadend(r) ==
    /\ BagIn(r, chatReaders)
    /\ chatReaders' = chatReaders (-) One(r)
    /\ chatBot' = IF r.mounted
                  THEN [chatBot EXCEPT !.selectedImage = ImageData(r.file)]
                  ELSE chatBot
    /\ UNCHANGED sends
    /\ last' = Event("chatOnloadend", r, Null)
    /\ ChatFrame

\* the remove button of the selected image (ChatBot.tsx:204-209)
removeSelectedImage ==
    /\ chatBot # Null
    /\ chatBot.isOpen
    /\ chatBot.selectedImage # Null
    /\ chatBot' = [chatBot EXCEPT !.selectedImage = Null]
    /\ UNCHANGED <<sends, chatReaders>>
    /\ last' = Event("removeSelectedImage", Null, Null)
    /\ ChatFrame

\* handleDragEnter of ChatBot (ChatBot.tsx:80-87); drag events reach the
\* panel only while it is open (ChatBot.tsx:125-134)
chatHandleDragEnter(hasFiles) ==
    /\ chatBot # Null
    /\ chatBot.isOpen
    /\ IF hasFiles
       THEN /\ chatBot.dragCounter < MaxDrag
            /\ chatBot' = [chatBot EXCEPT !.dragCounter = @ + 1,
                                          !.isDragging = TRUE]
       ELSE UNCHANGED chatBot
    /\ UNCHANGED <<sends, chatReaders>>
    /\ last' = Event("chatHandleDragEnter", hasFiles, Null)
    /\ ChatFrame

\* handleDragLeave of ChatBot (ChatBot.tsx:94-102)
chatHandleDragLeave ==
    /\ chatBot # Null
    /\ chatBot.isOpen
    /\ chatBot' = IF chatBot.dragCounter - 1 <= 0
                  THEN [chatBot EXCEPT !.dragCounter = 0, !.isDragging = FALSE]
                  ELSE [chatBot EXCEPT !.dragCounter = @ - 1]
    /\ UNCHANGED <<sends, chatReaders>>
    /\ last' = Event("chatHandleDragLeave", Null, Null)
    /\ ChatFrame

\* handleDrop of ChatBot (ChatBot.tsx:104-111)
chatHandleDrop(file) ==
    /\ chatBot # Null
    /\ chatBot.isOpen
    /\ chatBot' = [chatBot EXCEPT !.dragCounter = 0, !.isDragging = FALSE]
    /\ IF file = NoFile THEN UNCHANGED chatReaders ELSE chatProcessFile(file)
    /\ UNCHANGED sends
    /\ last' = Event("chatHandleDrop", file, Null)
    /\ ChatFrame

\* ------------------------------------------------- the image edit response
\* The parts a candidate of the GenerateContentResponse can hold: text, or
\* inline data of some content type.  The bytes are those of an edit of the
\* image that was sent.
TextPart == [text |-> "Here is your design."]
InlinePart(subtype, g) ==
    [inlineData |-> [mimeType |-> <<"image", subtype>>,
                     data |-> <<"edit", g.img.base64[3]>>]]

PartLists(g) ==
    LET Parts == {TextPart, InlinePart("png", g), InlinePart("jpeg", g)}
    IN  {<<>>} \cup {<<a>> : a \in Parts}
               \cup {<<a, b>> : a \in Parts, b \in Parts}

\* a candidate with its content and parts, one whose content has no parts,
\* and one without content (blocked)
Candidates(g) ==
    {[content |-> [parts |-> ps]] : ps \in PartLists(g)}
        \cup { [content |-> [role |-> "model"]], [finishReason |-> "SAFETY"] }

\* the answers of generateContent: without candidates, with none, with one,
\* and with a second one that holds an image
Responses(g) ==
    { [text |-> ""], [candidates |-> <<>>] }
        \cup {[candidates |-> <<c>>] : c \in Candidates(g)}
        \cup {[candidates |->
                 <<c, [content |-> [parts |-> <<InlinePart("webp", g)>>]]>>] :
              c \in Candidates(g)}

\* a scan of the parts that keeps the last part with inline data
RECURSIVE lastInlineData(_)
lastInlineData(parts) ==
    IF parts = <<>> THEN Null
    ELSE IF lastInlineData(Tail(parts)) # Null
    THEN lastInlineData(Tail(parts))
    ELSE IF "inlineData" \in DOMAIN Head(parts) THEN Head(parts).inlineData
    ELSE Null

\* the loop of geminiService.ts:45-52: the inline data of the first part
\* that has some
RECURSIVE firstInlineData(_)
firstInlineData(parts) ==
    IF parts = <<>> THEN Null
    ELSE IF "inlineData" \in DOMAIN Head(parts) THEN Head(parts).inlineData
    ELSE firstInlineData(Tail(parts))

\* generateImageEdit from the response to its return (geminiService.ts:42-55);
\* Null stands for the throw of line 55
generateImageEdit(response) ==
    LET candidates ==
            IF "candidates" \in DOMAIN response THEN response.candidates ELSE <<>>
        parts ==
            IF /\ Len(candidates) > 0
               /\ "content" \in DOMAIN candidates[1]
               /\ "parts" \in DOMAIN candidates[1].content
            THEN candidates[1].content.parts
            ELSE <<>>
        inlineData == firstInlineData(parts)
    IN  IF inlineData = Null THEN Null
        ELSE [base64 |-> <<"data", inlineData.mimeType, inlineData.data>>,
              mimeType |-> inlineData.mimeType]

\* ai.models.generateContent resolved with a response: generateImageEdit
\* returns its image or throws (geminiService.ts:42-59), and handleGenerate
\* goes on (App.tsx:123-129)
generateContentResolves(g, response) ==
    /\ BagIn(g, gens) /\ g.kind = "image" /\ g.pc = "call"
    /\ gens' = gens (-) One(g)
    /\ IF generateImageEdit(response) # Null
       THEN /\ generatedImage' = generateImageEdit(response)
            /\ appState' = RESULT
            /\ UNCHANGED error
       ELSE /\ catchGenerate(NoImageMsg, GenFallback("image"))
            /\ UNCHANGED generatedImage
    /\ UNCHANGED <<generatedVideo, generatedAnalysis>>
    /\ GenFrame
    /\ last' = Event("generateContentResolves", g, response)
    /\ ComponentsKept
    /\ UNCHANGED <<isDragging, dragCounter>>
    /\ render

\* ------------------------------------------------------ comparison slider
\* getBoundingClientRect of the container: its left edge and its width, in
\* pixels, as the layout has it when the event arrives
Rects == { [left |-> 0, width |-> 4], [left |-> 10, width |-> 20] }
\* clientX of a mouse event or of the first touch, inside and outside
ClientXs == { -3, 0, 1, 3, 4, 15, 30, 45 }

Max(a, b) == IF a >= b THEN a ELSE b
Min(a, b) == IF a <= b THEN a ELSE b

\* handleMove (ComparisonSlider.tsx:16-23): the percentage it sets.  The
\* widths divide 100 times every offset, so the quotient is exact.
handleMove(clientX, rect) ==
    LET x == Max(0, Min(clientX - rect.left, rect.width))
    IN  (x * 100) \div rect.width

SliderFrame ==
    /\ UNCHANGED AppVars
    /\ UNCHANGED <<showFullPreview, isDragging, dragCounter, chatBot, sends,
                   chatReaders>>

\* onMouseDown (ComparisonSlider.tsx:25-31), not on the Fullscreen button
onMouseDown(clientX, rect) ==
    /\ SliderShown
    /\ slider' = [sliderPosition |-> handleMove(clientX, rect),
                  isDragging |-> TRUE]
    /\ last' = Event("onMouseDown", clientX, rect)
    /\ SliderFrame

\* onTouchStart (ComparisonSlider.tsx:33-39)
onTouchStart(clientX, rect) ==
    /\ SliderShown
    /\ slider' = [sliderPosition |-> handleMove(clientX, rect),
                  isDragging |-> TRUE]
    /\ last' = Event("onTouchStart", clientX, rect)
    /\ SliderFrame

\* onMouseMove (ComparisonSlider.tsx:44-49); the document listeners are
\* there while isDragging (ComparisonSlider.tsx:65-90)
onMouseMove(clientX, rect) ==
    /\ SliderShown
    /\ slider.isDragging
    /\ slider' = [slider EXCEPT !.sliderPosition = handleMove(clientX, rect)]
    /\ last' = Event("onMouseMove", clientX, rect)
    /\ SliderFrame

\* onTouchMove (ComparisonSlider.tsx:51-55)
onTouchMove(clientX, rect) ==
    /\ SliderShown
    /\ slider.isDragging
    /\ slider' = [slider EXCEPT !.sliderPosition = handleMove(clientX, rect)]
    /\ last' = Event("onTouchMove", clientX, rect)
    /\ SliderFrame

\* onMouseUp and onTouchEnd (ComparisonSlider.tsx:41-42)
onMouseUp ==
    /\ SliderShown
    /\ slider.isDragging
    /\ slider' = [slider EXCEPT !.isDragging = FALSE]
    /\ last' = Event("onMouseUp", Null, Null)
    /\ SliderFrame

\* a keyboard handler that steps without the limits
onKeyDownUnclamped(key) ==
    /\ SliderShown
    /\ slider' = [slider EXCEPT !.sliderPosition =
                      CASE key = "ArrowLeft" -> @ - 5
                        [] key = "ArrowRight" -> @ + 5
                        [] OTHER -> @]
    /\ last' = Event("onKeyDown", key, Null)
    /\ SliderFrame

\* onKeyDown (ComparisonSlider.tsx:57-63)
onKeyDown(key) ==
    /\ SliderShown
    /\ slider' = [slider EXCEPT !.sliderPosition =
                      CASE key = "ArrowLeft" -> Max(0, @ - 5)
                        [] key = "ArrowRight" -> Min(100, @ + 5)
                        [] OTHER -> @]
    /\ last' = Event("onKeyDown", key, Null)
    /\ SliderFrame

\* ------------------------------------------------ the feature scan response
\* A text is the sequence of its characters.
Rep(c, n) == [i \in 1..n |-> c]

\* the tokens a response is made of: empty, blank, short, padded with
\* blanks, and of 39 and 40 characters
Tokens ==
    { <<>>, <<" ">>, <<"a">>, <<" ", "b", " ">>, <<"c", " ", "d">>,
      Rep("x", 39), Rep("x", 40), <<" ">> \o Rep("y", 39) \o <<" ">> }

Letters == <<"e", "f", "g", "h", "i", "j", "k", "l", "m", "n", "o", "p">>

\* a list of n one-letter tokens, blank at the places in holes
LongList(n, holes) ==
    [i \in 1..n |-> IF i \in holes THEN <<" ">> ELSE <<Letters[i]>>]

TokenLists ==
    {<<t>> : t \in Tokens} \cup {<<t, u>> : t \in Tokens, u \in Tokens}
        \cup {LongList(n, holes) : n \in {10, 11, 12},
                                   holes \in {{}, {2}, {2, 5}}}

\* the tokens written one after the other with commas between them
RECURSIVE JoinTokens(_)
JoinTokens(toks) ==
    IF Len(toks) = 1 THEN toks[1]
    ELSE toks[1] \o <<",">> \o JoinTokens(Tail(toks))

\* the answers of generateContent to the scan: with a text, and without one
FeatureResponses ==
    {[text |-> JoinTokens(toks)] : toks \in TokenLists}
        \cup { [candidates |-> <<>>] }

\* String.prototype.split(',')
RECURSIVE split(_)
split(text) ==
    IF \A i \in 1..Len(text) : text[i] # ","
    THEN <<text>>
    ELSE LET k == CHOOSE i \in 1..Len(text) :
                      text[i] = "," /\ \A j \in 1..(i - 1) : text[j] # ","
         IN  <<SubSeq(text, 1, k - 1)>> \o split(SubSeq(text, k + 1, Len(text)))

\* the filter of geminiService.ts:92
keptLength(t) == Len(t) > 0 /\ Len(t) < 40

\* Array.prototype.slice(0, n)
slice(list, n) == SubSeq(list, 1, Min(n, Len(list)))

\* an identifyFeatures that cuts the list before it filters it
identifyFeaturesSliceFirst(response) ==
    LET text == IF "text" \in DOMAIN response THEN response.text ELSE <<>>
        parts == split(text)
        trimmed == [i \in 1..Len(parts) |-> trim(parts[i])]
    IN  SelectSeq(slice(trimmed, 10), keptLength)

\* identifyFeatures from the response to its return
\* (geminiService.ts:89-93)
identifyFeatures(response) ==
    LET text == IF "text" \in DOMAIN response THEN response.text ELSE <<>>
        parts == split(text)
        trimmed == [i \in 1..Len(parts) |-> trim(parts[i])]
    IN  slice(SelectSeq(trimmed, keptLength), 10)

\* generateContent answered the scan: identifyFeatures returns the labels
\* and handleScanFeatures goes on (geminiService.ts:72-93, App.tsx:187-188,
\* 191-193)
identifyContentResolves(s, response) ==
    /\ BagIn(s, scans)
    /\ scans' = scans (-) One(s)
    /\ detectedFeatures' = identifyFeatures(response)
    /\ isScanning' = FALSE
    /\ UNCHANGED <<prompt, error, isAnalyzing, analyzes>>
    /\ AssistFrame
    /\ last' = Event("identifyContentResolves", s, response)
    /\ ComponentsKept
    /\ UNCHANGED <<isDragging, dragCounter>>
    /\ render

\* ------------------------------------------------------- specifications
\* The whole flow of a page served on its own: upload, description, the
\* three generations, result.
Next ==
    \/ \E file \in Files : handleFileUpload(file)
    \/ \E file \in Files : onloadend(file)
    \/ \E text \in TypedPrompts : setPrompt(text)
    \/ \E m \in {"image", "video"} : setMode(m)
    \/ Cancel
    \/ dismissError
    \/ handleRefine
    \/ handleReset
    \/ handleGenerate
    \/ \E g \in BagToSet(gens) : imageEditResolves(g)
    \/ \E g \in BagToSet(gens), m \in SdkMessages \cup {NoImageMsg} :
          imageEditRejects(g, m)
    \/ \E g \in BagToSet(gens), t \in AnalysisTexts : analyzeVideoResolves(g, t)
    \/ \E g \in BagToSet(gens) : analyzeVideoRejects(g)
    \/ \E g \in BagToSet(gens), operation \in Operations :
          generateVideosResolves(g, operation)
    \/ \E g \in BagToSet(gens) : timerFires(g)
    \/ \E g \in BagToSet(gens), operation \in Operations :
          getVideosOperationResolves(g, operation)
    \/ \E g \in BagToSet(gens), ok \in BOOLEAN : fetchResolves(g, ok)
    \/ \E g \in BagToSet(gens) : blobResolves(g)
    \/ \E g \in BagToSet(gens), m \in SdkMessages : videoCallRejects(g, m)

Spec == Init /\ [][Next]_vars

\* The Animation mode in full, on a photo: the key selection of AI Studio
\* and the video options, next to the image edit of the same photo.
NextVideo ==
    \/ \E file \in Files : ~isVideo(file) /\ handleFileUpload(file)
    \/ \E file \in Files : onloadend(file)
    \/ \E text \in TypedPrompts : setPrompt(text)
    \/ \E m \in {"image", "video"} : setMode(m)
    \/ \E a \in {"16:9", "9:16"} : setVideoAspectRatio(a)
    \/ \E r \in {"720p", "1080p"} : setVideoResolution(r)
    \/ Cancel
    \/ dismissError
    \/ handleRefine
    \/ handleReset
    \/ handleGenerate
    \/ \E g \in BagToSet(gens) : imageEditResolves(g)
    \/ \E g \in BagToSet(gens), m \in SdkMessages \cup {NoImageMsg} :
          imageEditRejects(g, m)
    \/ \E g \in BagToSet(gens), hasKey \in BOOLEAN :
          hasSelectedApiKeyResolves(g, hasKey)
    \/ \E g \in BagToSet(gens) : hasSelectedApiKeyRejects(g)
    \/ \E g \in BagToSet(gens) : openSelectKeyResolves(g)
    \/ \E g \in BagToSet(gens) : openSelectKeyRejects(g)
    \/ \E g \in BagToSet(gens), operation \in Operations :
          generateVideosResolves(g, operation)
    \/ \E g \in BagToSet(gens) : timerFires(g)
    \/ \E g \in BagToSet(gens), operation \in Operations :
          getVideosOperationResolves(g, operation)
    \/ \E g \in BagToSet(gens), ok \in BOOLEAN : fetchResolves(g, ok)
    \/ \E g \in BagToSet(gens) : blobResolves(g)
    \/ \E g \in BagToSet(gens), m \in SdkMessages : videoCallRejects(g, m)

SpecVideo == InitVideo /\ [][NextVideo]_vars

\* The image path with the intelligence tools of the description step: a
\* photo is uploaded, described with the help of the tools, edited, refined
\* or reset.
NextTools ==
    \/ \E file \in Files : ~isVideo(file) /\ handleFileUpload(file)
    \/ \E file \in Files : onloadend(file)
    \/ \E text \in TypedPrompts : setPrompt(text)
    \/ Cancel
    \/ dismissError
    \/ handleRefine
    \/ handleReset
    \/ handleGenerate
    \/ \E g \in BagToSet(gens) : imageEditResolves(g)
    \/ \E g \in BagToSet(gens), m \in SdkMessages \cup {NoImageMsg} :
          imageEditRejects(g, m)
    \/ handleAnalyze
    \/ \E a \in BagToSet(analyzes), suggestion \in Suggestions :
          analyzeImageResolves(a, suggestion)
    \/ \E a \in BagToSet(analyzes) : analyzeImageRejects(a)
    \/ handleScanFeatures
    \/ \E s \in BagToSet(scans), features \in FeatureLists :
          identifyFeaturesResolves(s, features)
    \/ \E s \in BagToSet(scans) : identifyFeaturesFails(s)
    \/ \E i \in 1..Len(detectedFeatures) : addFeatureToPrompt(i)

SpecTools == Init /\ [][NextTools]_vars
\* The chat assistant next to the image path that leads to the full-screen
\* preview: a photo is uploaded, edited and previewed while the user talks
\* to the assistant.
NextChat ==
    \/ \E file \in Files : isImage(file) /\ handleFileUpload(file)
    \/ \E file \in Files : onloadend(file)
    \/ setPrompt(<<"add a pool">>)
    \/ handleGenerate
    \/ \E g \in BagToSet(gens) : imageEditResolves(g)
    \/ handleImageClick
    \/ closePreview
    \/ toggleChat
    \/ \E text \in ChatInputs : setInputValue(text)
    \/ clickSend
    \/ \E e \in Keys : handleKeyPress(e)
    \/ \E s \in BagToSet(sends), text \in ReplyTexts :
          sendChatMessageResolves(s, text)
    \/ \E s \in BagToSet(sends) : sendChatMessageRejects(s)
    \/ \E file \in Files : handleFileSelect(file)
    \/ \E r \in BagToSet(chatReaders) : chatOnloadend(r)
    \/ removeSelectedImage

SpecChat == Init /\ [][NextChat]_vars
\* Every trigger of a request to the service side by side: Execute in the
\* three modes of a photo with the key selection of AI Studio, the two
\* tools, and a chat turn.
NextRequests ==
    \/ \E file \in Files : isImage(file) /\ handleFileUpload(file)
    \/ \E file \in Files : onloadend(file)
    \/ setPrompt(<<"add a pool">>)
    \/ \E m \in {"image", "video"} : setMode(m)
    \/ handleGenerate
    \/ \E g \in BagToSet(gens) : imageEditResolves(g)
    \/ \E g \in BagToSet(gens) : imageEditRejects(g, NoImageMsg)
    \/ \E g \in BagToSet(gens), hasKey \in BOOLEAN :
          hasSelectedApiKeyResolves(g, hasKey)
    \/ \E g \in BagToSet(gens) : hasSelectedApiKeyRejects(g)
    \/ \E g \in BagToSet(gens) : openSelectKeyResolves(g)
    \/ \E g \in BagToSet(gens) : openSelectKeyRejects(g)
    \/ \E g \in BagToSet(gens), operation \in Operations :
          generateVideosResolves(g, operation)
    \/ \E g \in BagToSet(gens) : timerFires(g)
    \/ \E g \in BagToSet(gens), operation \in Operations :
          getVideosOperationResolves(g, operation)
    \/ \E g \in BagToSet(gens), ok \in BOOLEAN : fetchResolves(g, ok)
    \/ \E g \in BagToSet(gens) : blobResolves(g)
    \/ \E g \in BagToSet(gens) : videoCallRejects(g, "503 unavailable")
    \/ handleAnalyze
    \/ \E a \in BagToSet(analyzes) : analyzeImageResolves(a, "")
    \/ \E a \in BagToSet(analyzes) : analyzeImageRejects(a)
    \/ handleScanFeatures
    \/ \E s \in BagToSet(scans) : identifyFeaturesResolves(s, <<>>)
    \/ \E s \in BagToSet(scans) : identifyFeaturesFails(s)
    \/ setInputValue(<<" ", "hello">>)
    \/ handleKeyPress([key |-> "Enter", shiftKey |-> FALSE])
    \/ \E s \in BagToSet(sends) : sendChatMessageResolves(s, <<"a reply">>)
    \/ \E s \in BagToSet(sends) : sendChatMessageRejects(s)

SpecRequests == InitVideo /\ [][NextRequests]_vars
\* The result of an image edit: the answer of the service is turned into
\* the image, the comparison slider shows it and is moved, the result is
\* previewed, refined and generated again.
NextResult ==
    \/ \E file \in Files : isImage(file) /\ handleFileUpload(file)
    \/ \E file \in Files : onloadend(file)
    \/ setPrompt(<<"add a pool">>)
    \/ Cancel
    \/ handleGenerate
    \/ \E g \in BagToSet(gens) :
          \E response \in Responses(g) : generateContentResolves(g, response)
    \/ handleRefine
    \/ handleReset
    \/ handleImageClick
    \/ closePreview
    \/ \E clientX \in ClientXs, rect \in Rects : onMouseDown(clientX, rect)
    \/ \E clientX \in ClientXs, rect \in Rects : onTouchStart(clientX, rect)
    \/ \E clientX \in ClientXs, rect \in Rects : onMouseMove(clientX, rect)
    \/ \E clientX \in ClientXs, rect \in Rects : onTouchMove(clientX, rect)
    \/ onMouseUp
    \/ \E key \in {"ArrowLeft", "ArrowRight", "Tab"} : onKeyDown(key)

SpecResult == Init /\ [][NextResult]_vars
\* Dragging over the two drop targets: the drop zone of the upload step and
\* the panel of the chat, with the uploads and the Cancel that make the
\* drop zone go and come back.
NextDrag ==
    \/ \E hasFiles \in BOOLEAN : handleDragEnter(hasFiles)
    \/ handleDragLeave
    \/ \E file \in Files \cup {NoFile} : handleDrop(file)
    \/ \E file \in Files : handleFileUpload(file)
    \/ \E file \in Files : onloadend(file)
    \/ Cancel
    \/ toggleChat
    \/ \E hasFiles \in BOOLEAN : chatHandleDragEnter(hasFiles)
    \/ chatHandleDragLeave
    \/ \E file \in Files \cup {NoFile} : chatHandleDrop(file)
    \/ \E r \in BagToSet(chatReaders) : chatOnloadend(r)

SpecDrag == Init /\ [][NextDrag]_vars

\* Two photos and a video uploaded one after the other, with the three
\* generations: what a generation started on one upload does once another
\* file was uploaded.  The video job is answered as done with its URI at
\* once; the poll loop is in SpecVideo.
Uploads ==
    { [name |-> "yard.png", type |-> <<"image", "png">>],
      [name |-> "deck.jpg", type |-> <<"image", "jpeg">>],
      [name |-> "walk.mp4", type |-> <<"video", "mp4">>] }

NextUploads ==
    \/ \E file \in Uploads : handleFileUpload(file)
    \/ \E file \in Uploads : onloadend(file)
    \/ setPrompt(<<"add a pool">>)
    \/ \E m \in {"image", "video"} : setMode(m)
    \/ Cancel
    \/ handleRefine
    \/ handleReset
    \/ handleGenerate
    \/ \E g \in BagToSet(gens) : imageEditResolves(g)
    \/ \E g \in BagToSet(gens) : imageEditRejects(g, NoImageMsg)
    \/ \E g \in BagToSet(gens) : analyzeVideoResolves(g, "a report")
    \/ \E g \in BagToSet(gens) : analyzeVideoRejects(g)
    \/ \E g \in BagToSet(gens) :
          generateVideosResolves(g, [done |-> TRUE, uri |-> TRUE])
    \/ \E g \in BagToSet(gens) : fetchResolves(g, TRUE)
    \/ \E g \in BagToSet(gens) : blobResolves(g)

SpecUploads == Init /\ [][NextUploads]_vars

\* The feature scan of a photo with the answers of the service turned into
\* the list of labels.
NextFeatures ==
    \/ \E file \in Files : isImage(file) /\ handleFileUpload(file)
    \/ \E file \in Files : onloadend(file)
    \/ handleScanFeatures
    \/ \E s \in BagToSet(scans), response \in FeatureResponses :
          identifyContentResolves(s, response)
    \/ \E s \in BagToSet(scans) : identifyFeaturesFails(s)

SpecFeatures == Init /\ [][NextFeatures]_vars
\* ================================================================== claims
NonNullResults ==
    (IF generatedImage # Null THEN 1 ELSE 0)
      + (IF generatedVideo # Null THEN 1 ELSE 0)
      + (IF generatedAnalysis # NullText THEN 1 ELSE 0)

\* C1: whenever appState is RESULT, exactly one of generatedImage,
\* generatedVideo and generatedAnalysis is non-null.
C1_ExactlyOneResult == appState = RESULT => NonNullResults = 1

\* the external call of a generation failed in the step that led here
GenerationCallFailed ==
    \/ last.op \in {"imageEditRejects", "analyzeVideoRejects", "videoCallRejects"}
    \/ /\ last.op \in {"generateVideosResolves", "getVideosOperationResolves"}
       /\ last.out.done /\ ~last.out.uri
    \/ last.op = "fetchResolves" /\ ~last.out

\* C2: when the external call of a generation fails, appState becomes
\* DESCRIBE, an error message is set, and the prompt is the text it was when
\* the generation was triggered.
C2_FailureKeepsPrompt ==
    [][GenerationCallFailed' =>
         /\ appState' = DESCRIBE
         /\ error' # NullText
         /\ prompt' = last'.arg.prompt]_vars

\* C3: appState enters RESULT only from a generating state, a generating
\* state only from DESCRIBE, and DESCRIBE only from UPLOAD, a generating
\* state or RESULT.  The way back to UPLOAD (Cancel, New Project) is left
\* open here, so a violation is never one of those.
C3_LinearStateMachine ==
    [][appState' # appState =>
         /\ appState' = RESULT => appState \in {GENERATING, VIDEO_GENERATING}
         /\ appState' \in {GENERATING, VIDEO_GENERATING} => appState = DESCRIBE
         /\ appState' = DESCRIBE =>
              appState \in {UPLOAD, GENERATING, VIDEO_GENERATING, RESULT}]_vars

\* the awaits of a generation that are requests to the external service
NetworkAwaits == {"call", "submit", "poll", "fetch", "blob"}

NetworkOps ==
    BagCardinality([g \in {h \in BagToSet(gens) : h.pc \in NetworkAwaits}
                      |-> gens[g]])
      + BagCardinality(analyzes) + BagCardinality(scans)

\* C4: no two network operations are in flight at the same time.
C4_OneNetworkOperation == NetworkOps <= 1

\* C5: no two file reads of the upload intake are in flight at the same time.
C5_OneFileRead == BagCardinality(readers) <= 1

\* C6: each completed file read is one transition from UPLOAD to DESCRIBE
\* that sets originalImage to the file's data and content type.
C6_ReadIsOneTransition ==
    [][last'.op = "onloadend" =>
         /\ appState = UPLOAD
         /\ appState' = DESCRIBE
         /\ originalImage' = ImageData(last'.arg)]_vars

RejectedUpload(e) ==
    e.op = "processFile" /\ ~isImage(e.arg) /\ ~isVideo(e.arg)

\* C7: an upload whose content type is neither image/* nor video/* sets the
\* error message and leaves appState at UPLOAD; originalImage, the results,
\* prompt, fileName, mediaType and mode stay as they are and no read starts.
C7_RejectedUpload ==
    [][RejectedUpload(last') =>
         /\ error' = InvalidUploadMsg
         /\ appState = UPLOAD /\ appState' = UPLOAD
         /\ UNCHANGED <<originalImage, generatedImage, generatedVideo,
                        generatedAnalysis, prompt, fileName, mediaType, mode,
                        readers>>]_vars

\* a text file was refused while an earlier photo and its prompt were kept
C7_Witness ==
    /\ RejectedUpload(last)
    /\ error = InvalidUploadMsg
    /\ originalImage # Null
    /\ prompt # <<>>
    /\ fileName # ""

\* C8: once set, originalImage changes only when handleReset runs.
C8_MediaFixedUntilReset ==
    [][(originalImage # Null /\ originalImage' # originalImage)
          => last'.op = "handleReset"]_vars

VideoGens == {g \in BagToSet(gens) : g.kind = "video"}

\* C9: in generateVideo no operation is known before the job submission is
\* answered, a status check is pending or scheduled only while the last
\* operation received has done = FALSE, and the bytes are fetched only after
\* an operation with done = TRUE and a URI was received.
C9_SubmitPollFetch ==
    \A g \in VideoGens :
        /\ g.pc \in {"hasKey", "openKey", "submit"} => g.op = Null
        /\ g.pc \in {"sleep", "poll"} => (g.op # Null /\ ~g.op.done)
        /\ g.pc \in {"fetch", "blob"} => (g.op # Null /\ g.op.done /\ g.op.uri)

\* one generation checks the status while another fetches its bytes
C9_Witness ==
    \E g, h \in VideoGens : g.pc = "poll" /\ h.pc = "fetch"

\* generateVideo calls suspended in the poll loop (geminiService.ts:200-203)
InLoop(b) ==
    LET loop == {g \in BagToSet(b) : g.kind = "video" /\ g.pc \in {"sleep", "poll"}}
    IN  BagCardinality([g \in loop |-> b[g]])

\* C10: a generateVideo call leaves the poll loop exactly in a step in which
\* the service reports done or the status check fails: neither the passing
\* of time nor Cancel, an upload or any other handler ends it.
C10_LoopEndsOnDoneOrFailure ==
    [][InLoop(gens') < InLoop(gens) <=>
         \/ last'.op = "getVideosOperationResolves" /\ last'.out.done
         \/ last'.op = "videoCallRejects" /\ last'.arg.pc = "poll"]_vars

\* the status is checked again after Cancel sent the screen back to UPLOAD
C10_Witness ==
    /\ appState = UPLOAD
    /\ last.op = "timerFires"
    /\ \E g \in VideoGens : g.pc = "poll"

\* the service answered with an operation that is done and has no URI
NoUriAnswer(e) ==
    /\ e.op \in {"generateVideosResolves", "getVideosOperationResolves"}
    /\ e.out.done /\ ~e.out.uri

\* C11: when the video operation is done without a result URI, the call
\* ends there with no fetch pending, generatedVideo is left as it was, and
\* the app is in DESCRIBE with the error message of the missing URI.
C11_NoUriFails ==
    [][NoUriAnswer(last') =>
         /\ gens' = gens (-) One(last'.arg)
         /\ generatedVideo' = generatedVideo
         /\ appState' = DESCRIBE
         /\ error' = NoUriMsg]_vars

\* a status check was answered done without a URI and nothing is pending
C11_Witness ==
    /\ NoUriAnswer(last)
    /\ last.op = "getVideosOperationResolves"
    /\ gens = EmptyBag
    /\ generatedVideo = Null
    /\ appState = DESCRIBE
    /\ error = NoUriMsg

\* the handlers of the four user triggers: Execute, Auto-Suggest, Identify
\* Features, and a chat turn
UserTriggers ==
    {"handleGenerate", "handleAnalyze", "handleScanFeatures", "handleSend"}

\* the awaits of handleGenerate up to the answer to its first request
FirstAwaits == {"hasKey", "openKey", "call", "submit"}

\* triggers whose request is not answered yet
Outstanding ==
    BagCardinality([g \in {h \in BagToSet(gens) : h.pc \in FirstAwaits}
                      |-> gens[g]])
      + BagCardinality(analyzes) + BagCardinality(scans)
      + BagCardinality(sends)

\* the step in which a request, or the key selection before it, failed
RequestFailed(e) ==
    \/ e.op \in {"imageEditRejects", "analyzeVideoRejects", "videoCallRejects",
                 "hasSelectedApiKeyRejects", "openSelectKeyRejects",
                 "analyzeImageRejects", "identifyFeaturesFails",
                 "sendChatMessageRejects"}
    \/ NoUriAnswer(e)
    \/ e.op = "fetchResolves" /\ ~e.out

\* C12: a request is issued only by the handler of a user trigger and one
\* per trigger (for a video: one job submission per Execute); the step in
\* which a request fails ends that call and issues nothing.
C12_NoRetry ==
    [][/\ Outstanding' > Outstanding =>
            /\ Outstanding' = Outstanding + 1
            /\ last'.op \in UserTriggers
       /\ RequestFailed(last') =>
            /\ Pending' = Pending - 1
            /\ Outstanding' <= Outstanding]_vars

\* an image edit failed: the app is back in DESCRIBE with the message and
\* nothing is pending
C12_Witness ==
    /\ last.op = "imageEditRejects"
    /\ Pending = 0
    /\ appState = DESCRIBE
    /\ error = NoImageMsg

\* C13: handleSend, from the Send button or from the Enter key, appends to
\* the transcript and calls sendChatMessage only when the trimmed input is
\* not empty or an image is selected, and never while a turn is loading.
C13_EmptyTurnNotSent ==
    [][last'.op = "handleSend" =>
         ((chatBot'.messages # chatBot.messages \/ sends' # sends) =>
              /\ trim(chatBot.inputValue) # <<>> \/ chatBot.selectedImage # Null
              /\ ~chatBot.isLoading)]_vars

\* Enter was pressed on an input of blanks with no image: handleSend ran and
\* nothing was appended or sent
C13_Witness ==
    /\ last = Event("handleSend", Null, Null)
    /\ chatBot # Null
    /\ chatBot.inputValue = <<" ">>
    /\ chatBot.selectedImage = Null
    /\ chatBot.messages = <<Greeting>>
    /\ sends = EmptyBag

\* the transcript of the chat session: that of the mounted ChatBot, and
\* while none is mounted that of the ChatBot that mounts next
Transcript == IF chatBot = Null THEN NewChatBot.messages ELSE chatBot.messages

IsPrefix(a, b) == Len(a) <= Len(b) /\ SubSeq(b, 1, Len(a)) = a

\* C14: the chat transcript is append-only: every step leaves the previous
\* transcript as a prefix of the new one.
C14_AppendOnly == [][IsPrefix(Transcript, Transcript')]_vars

\* the operations of the chat: send, reply, failure, attach, toggle
ChatOps ==
    {"handleSend", "handleKeyPress", "toggleChat", "setInputValue",
     "sendChatMessageResolves", "sendChatMessageRejects", "handleFileSelect",
     "chatOnloadend", "removeSelectedImage"}

\* the same for the steps of the chat's own operations only
AppendOnlyInChatOps ==
    [][last'.op \in ChatOps => IsPrefix(Transcript, Transcript')]_vars

\* the parts sent for a message hold its text, when it has one, and the
\* bytes and content type of its image, when it has one
Carries(parts, text, image) ==
    /\ trim(text) # <<>> => \E i \in 1..Len(parts) : parts[i] = [text |-> text]
    /\ image # Null =>
         \E i \in 1..Len(parts) :
            parts[i] = [inlineData |-> [mimeType |-> image.mimeType,
                                        data |-> image.base64[3]]]

\* a step of handleSend that called sendChatMessage
TurnSent(e) == e.op = "handleSend" /\ e.out # Null

\* C15: the history of a sent turn is the transcript as it was before the
\* turn's user message, entry by entry in order with each entry's role, text
\* and image; the new turn is the message, and is not in the history.
C15_HistoryBeforeTurn ==
    [][TurnSent(last') =>
         LET before == chatBot.messages
             request == last'.out
             userMsg == last'.arg
         IN  /\ Len(request.history) = Len(before)
             /\ \A i \in 1..Len(before) :
                   /\ request.history[i].role = before[i].role
                   /\ Carries(request.history[i].parts,
                              before[i].text, before[i].image)
             /\ Carries(request.message, userMsg.text, userMsg.image)
             /\ chatBot'.messages = Append(before, userMsg)]_vars

\* the second turn of a conversation was sent with an image: the history
\* has the greeting, the first turn and its reply
C15_Witness ==
    /\ TurnSent(last)
    /\ Len(last.out.history) = 3
    /\ last.arg.image # Null
    /\ last.arg.text # <<>>

\* a step of handleSend that accepted the turn
TurnAccepted(e) == e.op = "handleSend" /\ e.arg # Null

\* the transcript m ends with a user message followed by one model message
\* of the given text
OneModelMessage(before, after, text) ==
    /\ after = Append(before, [role |-> "model", text |-> text, image |-> Null])
    /\ before[Len(before)].role = "user"

\* C16: an accepted turn clears the input and the selected image; when its
\* call settles exactly one model message is appended after the user
\* message, the reply on success and the apology on failure, and isLoading
\* is false again.
C16_OneReplyPerTurn ==
    [][/\ TurnAccepted(last') =>
            /\ chatBot'.inputValue = <<>>
            /\ chatBot'.selectedImage = Null
            /\ chatBot'.isLoading = (last'.out # Null)
            /\ last'.out = Null =>
                 OneModelMessage(Append(chatBot.messages, last'.arg),
                                 chatBot'.messages, Apology.text)
       /\ last'.op = "sendChatMessageResolves" =>
            /\ chatBot' # Null
            /\ \E text \in {Transcript'[Len(Transcript')].text} :
                  /\ OneModelMessage(Transcript, Transcript', text)
                  /\ last'.out # <<>> => text = last'.out
            /\ ~chatBot'.isLoading
       /\ last'.op = "sendChatMessageRejects" =>
            /\ chatBot' # Null
            /\ OneModelMessage(Transcript, Transcript', Apology.text)
            /\ ~chatBot'.isLoading]_vars

\* the parts of the first candidate of a response, none when there is no
\* candidate or the first has no content or no parts
FirstCandidateParts(response) ==
    IF /\ "candidates" \in DOMAIN response
       /\ response.candidates # <<>>
       /\ "content" \in DOMAIN response.candidates[1]
       /\ "parts" \in DOMAIN response.candidates[1].content
    THEN response.candidates[1].content.parts
    ELSE <<>>

\* the places of the parts that carry inline data
InlinePlaces(parts) == {i \in 1..Len(parts) : "inlineData" \in DOMAIN parts[i]}

\* C17: answered with a response, generateImageEdit returns the first part
\* with inline data of the first candidate as a data URL with that part's
\* content type, which becomes generatedImage; when there is no such part
\* it fails with the error message and no image is set.
C17_FirstInlinePart ==
    [][last'.op = "generateContentResolves" =>
         LET parts == FirstCandidateParts(last'.out)
             places == InlinePlaces(parts)
         IN  IF places # {}
             THEN \E i \in places :
                     /\ \A j \in places : i <= j
                     /\ generatedImage' =
                          [base64 |-> <<"data", parts[i].inlineData.mimeType,
                                        parts[i].inlineData.data>>,
                           mimeType |-> parts[i].inlineData.mimeType]
                     /\ appState' = RESULT
             ELSE /\ generatedImage' = generatedImage
                  /\ error' = NoImageMsg
                  /\ appState' = DESCRIBE]_vars

\* the first candidate held a text part, then a PNG, and the second
\* candidate another image: the PNG was returned and is shown
C17_Witness ==
    /\ last.op = "generateContentResolves"
    /\ "candidates" \in DOMAIN last.out
    /\ Len(last.out.candidates) = 2
    /\ Len(FirstCandidateParts(last.out)) = 2
    /\ InlinePlaces(FirstCandidateParts(last.out)) = {2}
    /\ generatedImage # Null
    /\ generatedImage.mimeType = <<"image", "png">>
    /\ appState = RESULT

\* C18: the position of the comparison slider is within 0 and 100 in every
\* state that has a slider, whatever the sequence of mouse, touch and arrow
\* key inputs is and wherever the pointer is.
C18_SliderInRange ==
    slider # Null => slider.sliderPosition >= 0 /\ slider.sliderPosition <= 100

\* the mouse was dragged to the right of the container: the position is 100
C18_Witness ==
    /\ last.op = "onMouseMove"
    /\ last.arg > last.out.left + last.out.width
    /\ slider.isDragging
    /\ slider.sliderPosition = 100

\* C19: whenever the app enters RESULT with an edited image, also after
\* Refine and a new generation, and whenever the full-screen preview is
\* closed, the comparison slider that is shown is at 50.
C19_SliderStartsAt50 ==
    [][(/\ \/ appState # RESULT /\ appState' = RESULT /\ generatedImage' # Null
           \/ PreviewShown /\ ~PreviewShown'
        /\ SliderShown')
          => slider'.sliderPosition = 50]_vars

\* the preview was closed and the slider is back on the canvas at 50
C19_Witness ==
    /\ last.op = "closePreview"
    /\ SliderShown
    /\ slider.sliderPosition = 50
    /\ ~slider.isDragging

\* the counter and the flag of a drop target agree
DragConsistent(counter, flag) == counter >= 0 /\ (flag <=> counter > 0)

\* C20: on the drop zone and on the chat panel the nesting counter is never
\* negative and isDragging is true exactly when the counter is above 0, for
\* any sequence of dragenter, dragleave and drop; a drop ends with the
\* counter at 0 and isDragging false.
C20_DragCounter ==
    /\ [](/\ DragConsistent(dragCounter, isDragging)
          /\ chatBot # Null =>
               DragConsistent(chatBot.dragCounter, chatBot.isDragging))
    /\ [][/\ last'.op = "handleDrop" => dragCounter' = 0 /\ ~isDragging'
          /\ last'.op = "chatHandleDrop" =>
               chatBot'.dragCounter = 0 /\ ~chatBot'.isDragging]_vars

\* enter, enter, leave on both targets: the flags are still up
C20_Witness ==
    /\ last.op = "handleDragLeave"
    /\ dragCounter = 1 /\ isDragging
    /\ chatBot.dragCounter = 1 /\ chatBot.isDragging

\* App.tsx:567-592: the upload that the result on the canvas was made from,
\* for the comparison slider and for the video player
ShownSource ==
    CASE mode = "image" /\ originalImage # Null /\ generatedImage # Null
           -> generatedImage.base64[4]
      [] mode = "video" /\ generatedVideo # Null
           -> generatedVideo.videoUrl[2]
      [] OTHER -> Null

\* the steps in which a generation completes with its result
Completions == {"imageEditResolves", "analyzeVideoResolves", "blobResolves"}

\* C21: whenever appState is RESULT, the image or video on the canvas was
\* made from the current originalImage, and a generation that completes
\* into RESULT is one whose input was the current originalImage.
C21_ResultOfCurrentUpload ==
    /\ [](appState = RESULT /\ ShownSource # Null
             => ShownSource = originalImage.base64)
    /\ [][(last'.op \in Completions /\ appState' = RESULT)
             => last'.arg.img = originalImage']_vars

\* C22: in every state where appState is DESCRIBE, GENERATING,
\* VIDEO_GENERATING or RESULT, originalImage is non-null.
C22_MediaPresent ==
    appState \in {DESCRIBE, GENERATING, VIDEO_GENERATING, RESULT}
        => originalImage # Null

\* the class of a content type: what stands before its slash
TypeClass(media) == media.mimeType[1]

\* the service function a generation calls, by its kind (App.tsx:123, 146,
\* 156), goes with the class of the media it is handed
KindMatchesMedia(g) ==
    IF g.kind = "analysis" THEN TypeClass(g.img) = "video"
    ELSE TypeClass(g.img) = "image"

\* App.tsx:527, Execute can be clicked
ExecuteEnabled ==
    /\ PanelShown
    /\ ~((TrimIsEmpty(prompt) /\ mode # "analysis") \/ isGenerating)

\* C23: every generation that handleGenerate starts calls the service
\* function of its media's kind (analyzeVideo on video/*, generateImageEdit
\* and generateVideo on image/*), and wherever Execute can be clicked
\* mediaType is the class of originalImage's content type and mode is
\* 'analysis' exactly when mediaType is 'video'.
C23_DispatchMatchesMedia ==
    /\ [][last'.op = "handleGenerate" =>
            \A g \in BagToSet(gens' (-) gens) : KindMatchesMedia(g)]_vars
    /\ [](ExecuteEnabled =>
            /\ mediaType = TypeClass(originalImage)
            /\ mode = "analysis" <=> mediaType = "video")

\* C24: a click on the enabled Execute button starts a generation: appState
\* becomes a generating state and one more call is in flight.  Stated for a
\* build that has its API key and runs outside AI Studio, where nothing
\* stands between the click and the call.
C24_ExecuteStarts ==
    [][(last'.op = "handleGenerate" /\ apiKey /\ ~aistudio) =>
         /\ appState' \in {GENERATING, VIDEO_GENERATING}
         /\ BagCardinality(gens') = BagCardinality(gens) + 1]_vars

\* C25: the video job of a generation that Execute starts carries the
\* resolution and the aspect ratio selected when Execute was clicked.
C25_JobCarriesOptions ==
    [][last'.op = "handleGenerate" =>
         \A g \in BagToSet(gens' (-) gens) :
             g.kind = "video" =>
                 /\ generateVideosRequest(g).config.resolution = videoResolution
                 /\ generateVideosRequest(g).config.aspectRatio = videoAspectRatio]_vars

\* the state New Project is said to leave: that of a page just opened
ResetState ==
    /\ appState = UPLOAD
    /\ originalImage = Null
    /\ generatedImage = Null /\ generatedVideo = Null
    /\ generatedAnalysis = NullText
    /\ prompt = <<>> /\ fileName = ""
    /\ detectedFeatures = <<>>
    /\ mediaType = "image" /\ mode = "image"
    /\ videoResolution = "720p" /\ videoAspectRatio = "16:9"

\* nothing made from an upload is in the state: no suggestion in the
\* prompt, no detected feature, no generated result
NothingDerived ==
    /\ prompt = <<>>
    /\ detectedFeatures = <<>>
    /\ generatedImage = Null /\ generatedVideo = Null
    /\ generatedAnalysis = NullText

\* the handlers that take a new file
UploadOps == {"processFile", "handleDrop"}

\* C26: handleReset leaves the app in UPLOAD with the media, the results and
\* the error null, prompt, fileName and detectedFeatures empty, mediaType
\* and mode 'image' and the video options at their defaults; and from that
\* state on, until a file is uploaded, no suggestion, detected feature or
\* generated result appears in the state.
C26_ResetIsClean ==
    [][/\ last'.op = "handleReset" => (ResetState' /\ error' = NullText)
       /\ (ResetState /\ last'.op \notin UploadOps) => NothingDerived']_vars

\* C27: handleRefine takes the app from RESULT to DESCRIBE and changes
\* nothing else of its state: the prompt, originalImage, mode, mediaType and
\* the generated results stay; and every generation that Execute starts is
\* handed originalImage, the upload, as its input.
C27_RefineKeepsInput ==
    [][/\ last'.op = "handleRefine" =>
            /\ appState = RESULT /\ appState' = DESCRIBE
            /\ UNCHANGED <<originalImage, generatedImage, generatedVideo,
                           generatedAnalysis, prompt, error, isAnalyzing,
                           isScanning, detectedFeatures, videoResolution,
                           videoAspectRatio, mediaType, mode, fileName>>
       /\ last'.op = "handleGenerate" =>
            \A g \in BagToSet(gens' (-) gens) :
                /\ g.img = originalImage
                /\ g.img \in {ImageData(file) : file \in Uploads}]_vars

\* Refine was clicked on the result of an image edit: the app is in DESCRIBE
\* with the photo, the prompt and the edit
C27_Witness ==
    /\ last.op = "handleRefine"
    /\ appState = DESCRIBE
    /\ originalImage # Null /\ generatedImage # Null
    /\ ~TrimIsEmpty(prompt)

\* the trimmed tokens of length 1 to 39, in their order, cut after the tenth
ExpectedFeatures(toks) ==
    LET Kept(i) == Len(trim(toks[i])) \in 1..39
        kept == {i \in 1..Len(toks) : Kept(i)}
        \* the place in toks of the n-th token that is kept
        Place(n) == CHOOSE i \in kept :
                        Cardinality({j \in kept : j <= i}) = n
    IN  [n \in 1..Min(10, Cardinality(kept)) |-> trim(toks[Place(n)])]

\* C28: when generateContent answers with a text, identifyFeatures returns
\* the comma-separated tokens of the text in their order, trimmed, only
\* those of length 1 to 39 and at most the first ten of them; an answer
\* without text gives the empty list, and when the call fails the list is
\* empty and no error is raised.
C28_FeatureList ==
    [][/\ last'.op = "identifyContentResolves" =>
            /\ "text" \notin DOMAIN last'.out => detectedFeatures' = <<>>
            /\ "text" \in DOMAIN last'.out =>
                 \A toks \in TokenLists :
                     JoinTokens(toks) = last'.out.text
                         => detectedFeatures' = ExpectedFeatures(toks)
       /\ last'.op = "identifyFeaturesFails" =>
            /\ detectedFeatures' = <<>>
            /\ error' = error
            /\ ~isScanning']_vars

\* a text of eleven tokens with a blank one among them was answered: ten
\* labels are kept, the blank one is not among them and the last one is
C28_Witness ==
    /\ last.op = "identifyContentResolves"
    /\ last.out = [text |-> JoinTokens(LongList(11, {2}))]
    /\ Len(detectedFeatures) = 10
    /\ detectedFeatures[2] = <<"g">>
    /\ detectedFeatures[10] = <<"o">>

\* C29: isScanning is true exactly while a feature scan is in flight and
\* isAnalyzing exactly while a prompt suggestion is in flight.
C29_FlagsTrackRequests ==
    /\ isScanning <=> BagCardinality(scans) > 0
    /\ isAnalyzing <=> BagCardinality(analyzes) > 0

\* C30: the transcript of the ChatBot starts with the greeting and
\* alternates model and user messages; while isLoading is false its length
\* is odd and its last message is the assistant's, and while isLoading is
\* true its last message is the user turn whose request is in flight.
C30_RolesAlternate ==
    chatBot # Null =>
        LET m == chatBot.messages
        IN  /\ m[1] = Greeting
            /\ \A i \in 1..Len(m) :
                   m[i].role = IF i % 2 = 1 THEN "model" ELSE "user"
            /\ ~chatBot.isLoading =>
                   Len(m) % 2 = 1 /\ m[Len(m)].role = "model"
            /\ chatBot.isLoading =>
                   /\ m[Len(m)].role = "user"
                   /\ \E s \in BagToSet(sends) : s.mounted

\* the second turn of a conversation awaits its reply
C30_Witness ==
    /\ chatBot # Null
    /\ chatBot.isLoading
    /\ Len(chatBot.messages) = 4
    /\ chatBot.messages[3].role = "model"
    /\ last.op = "handleSend"
====
